---------------------------- MODULE Spec2Model ----------------------------
(***************************************************************************)
(* Decisra backend: session registry, capability tokens, scope guard,      *)
(* realtime AI relay and expiry sweep, modelled from the TypeScript        *)
(* sources.  The specifications share the variables:                       *)
(*   SpecGuard   the scope classifier call (checkPromptInScope)            *)
(*   SpecJoin    the join-request admission handlers                       *)
(*   Spec        session creation, AI negotiation and one relay connection *)
(*   SpecShared  two relay connections of one client key                   *)
(*   SpecLife    the clock, the expiry sweep and one relay connection      *)
(***************************************************************************)
EXTENDS Integers, Sequences, FiniteSets, TLC

VARIABLES
    now,        \* Date.now(), in clock ticks
    store,      \* SessionStore.sessions: the ids that are keys of the registry Map
    sessions,   \* the Session objects, by id (an object outlives its registry entry)
    conns,      \* relay connections made by wss.handleUpgrade, by connection slot
    tracked,    \* server.ts aiConnectionsBySessionId
    http,       \* the last HTTP / upgrade response written
    calls,      \* admit / deny / end calls in progress or answered, by caller
    guard,      \* one checkPromptInScope invocation: its inputs and its settlement
    env,        \* getEnv(): which of the configuration values are set
    issued      \* the tokens signed with the server's JWT_SECRET so far

vars == <<now, store, sessions, conns, tracked, http, calls, guard, env, issued>>

(***************************************************************************)
(* Bounds of the model.                                                    *)
(***************************************************************************)
MaxTextLen == 3       \* longest classifier verdict text enumerated
MaxLatency == 7       \* longest classifier round trip enumerated, in seconds
MaxTime == 3          \* last clock tick
MaxTtl == 2           \* largest ttlMs handed to SessionStore.create, in ticks
MaxUsageLimit == 2    \* largest aiUsageLimit handed to SessionStore.create
MaxMsgs == 3          \* client messages received by the relay, all connections together
MaxUpstreamMsgs == 2
MaxSharedMsgs == 2    \* the same, while two connections share a client key
TicksPerSecond == 2   \* clock ticks in one second of JWT time

Max(a, b) == IF a >= b THEN a ELSE b

(***************************************************************************)
(* Text: a string is a sequence of characters.                             *)
(***************************************************************************)
Chars == {"Y", "e", "s", "n", "o", " "}

RECURSIVE TextsUpTo(_)
TextsUpTo(n) ==
    IF n = 0 THEN {<<>>}
    ELSE LET shorter == TextsUpTo(n - 1)
         IN  shorter \cup {Append(t, ch) : t \in {u \in shorter : Len(u) = n - 1}, ch \in Chars}

Texts == TextsUpTo(MaxTextLen)

toLowerCase(text) ==
    [i \in 1..Len(text) |->
        IF text[i] = "Y" THEN "y" ELSE IF text[i] = "N" THEN "n" ELSE text[i]]

RECURSIVE trimStart(_)
trimStart(text) ==
    IF text # <<>> /\ Head(text) = " " THEN trimStart(Tail(text)) ELSE text

RECURSIVE trimEnd(_)
trimEnd(text) ==
    IF text # <<>> /\ text[Len(text)] = " "
    THEN trimEnd(SubSeq(text, 1, Len(text) - 1))
    ELSE text

trim(text) == trimEnd(trimStart(text))

startsWith(text, prefix) ==
    Len(text) >= Len(prefix) /\ SubSeq(text, 1, Len(prefix)) = prefix

(***************************************************************************)
(* services/openaiScopeGuard.ts                                            *)
(***************************************************************************)
ScopeGuardTimeout == 6      \* timeoutMs: 6_000, in seconds

\* parseYesNo returns true, false or null.
parseYesNo(text) ==
    LET normalized == toLowerCase(trim(text))
    IN  IF normalized = <<"y", "e", "s">> THEN "true"
        ELSE IF normalized = <<"n", "o">> THEN "false"
        ELSE IF startsWith(normalized, <<"y", "e", "s">>) THEN "true"
        ELSE IF startsWith(normalized, <<"n", "o">>) THEN "false"
        ELSE "null"

\* A JSON value found at choices[0].message.content: a string or anything else.
coerceString(value) == IF value.isString THEN value.text ELSE <<>>

\* What the classifier endpoint does with one request:
\*   net      "error": fetch rejects; "bodyerror": reading the body rejects
\*   latency  seconds until the response headers arrive
\*   ok       res.ok
\*   parses   JSON.parse(raw) succeeds
\*   content  json.choices[0].message.content
Contents ==
    {[isString |-> TRUE, text |-> t] : t \in Texts} \cup {[isString |-> FALSE, text |-> <<>>]}

NoContent == [isString |-> FALSE, text |-> <<>>]

Latencies == {0} \cup ((ScopeGuardTimeout - 1)..MaxLatency)

FetchOutcomes ==
    {o \in [net : {"ok", "error", "bodyerror"}, latency : Latencies,
            ok : BOOLEAN, parses : BOOLEAN, content : Contents] :
        /\ (o.net # "ok" => o.parses /\ o.content = NoContent)
        /\ (~o.parses => o.content = NoContent)}

\* fetchWithTimeout: the timer aborts the request at timeoutMs and fetch then
\* rejects; a network failure rejects as well; the finally only clears the timer.
fetchWithTimeout(outcome, timeoutMs) ==
    IF outcome.latency >= timeoutMs THEN [threw |-> TRUE, ok |-> FALSE]
    ELSE IF outcome.net = "error" THEN [threw |-> TRUE, ok |-> FALSE]
    ELSE [threw |-> FALSE, ok |-> outcome.ok]

Raised == [threw |-> TRUE, inScope |-> FALSE, reason |-> "exception"]
Verdict(inScope, reason) == [threw |-> FALSE, inScope |-> inScope, reason |-> reason]

checkPromptInScope(apiKey, scope, outcome) ==
    IF ~apiKey THEN Verdict(FALSE, "AI is not configured")
    ELSE IF trim(scope) = <<>> THEN Verdict(FALSE, "Missing scope")
    ELSE LET res == fetchWithTimeout(outcome, ScopeGuardTimeout)
         IN  IF res.threw THEN Raised
             ELSE IF outcome.net = "bodyerror" THEN Raised
             ELSE IF ~res.ok THEN Verdict(FALSE, "Scope guard error")
             ELSE LET content == IF outcome.parses THEN coerceString(outcome.content) ELSE <<>>
                      yn == parseYesNo(content)
                  IN  IF yn = "null" THEN Verdict(FALSE, "Unclear scope classification")
                      ELSE Verdict(yn = "true", "")


(***************************************************************************)
(* Identifiers.                                                            *)
(***************************************************************************)
SessionIds == {"s1"}                \* ids crypto.randomBytes(16) hands out
UnknownId == "s0"                   \* an id that was never handed out
PathIds == SessionIds \cup {UnknownId}
StoreIds == SessionIds \cup {"s2"}  \* with the id of a second session
ReqIds == {"r1"}                    \* join request ids crypto.randomBytes(12) hands out
Callers == {"h1", "h2"}             \* concurrent HTTP callers
Subscribers == {"g1"}               \* clients holding a status stream open
Reaper == "reaper"                  \* the cleanup interval of server.ts
ConnIds == {1, 2}                   \* relay connections, in the order they are accepted

ParticipantKey(sub) == "participant:" \o sub
ClientKeys == {"host"} \cup {ParticipantKey(r) : r \in ReqIds}

(***************************************************************************)
(* store/SessionStore.ts                                                   *)
(***************************************************************************)
\* history is the log of the values status has been assigned, oldest first.
NoRequest ==
    [status |-> "none", requestedRole |-> "", createdAt |-> 0, decidedAt |-> -1,
     finalRole |-> "", roomUrl |-> FALSE, dailyToken |-> FALSE, history |-> <<>>]

NoSession ==
    [created |-> FALSE, type |-> "", hasScope |-> FALSE, scope |-> <<>>, hasContext |-> FALSE,
     createdAt |-> 0, expiresAt |-> 0, aiUsageLimit |-> 0,
     aiUsageByClient |-> [k \in ClientKeys |-> 0],
     joinRequests |-> [r \in ReqIds |-> NoRequest]]

\* SessionStore.create: the Session object it builds.
NewSession(type, scope, hasContext, aiUsageLimit, ttlMs, t) ==
    [created |-> TRUE, type |-> type, hasScope |-> scope.defined, scope |-> scope.text,
     hasContext |-> hasContext,
     createdAt |-> t, expiresAt |-> t + ttlMs, aiUsageLimit |-> aiUsageLimit,
     aiUsageByClient |-> [k \in ClientKeys |-> 0],
     joinRequests |-> [r \in ReqIds |-> NoRequest]]

isExpiredLate(session, t) == t > session.expiresAt

isExpired(session, t) == t >= session.expiresAt

(***************************************************************************)
(* services/sessionCore.ts: tokens.  A token is its payload, the secret    *)
(* that signed it and its exp claim (in seconds).                          *)
(***************************************************************************)
ServerSecret == "server"

ttlSeconds(expiresAt, t) == Max(1, (expiresAt - t) \div TicksPerSecond)

signHostToken(sessionId, expiresAt, t) ==
    [sessionId |-> sessionId, role |-> "host", sub |-> "", secret |-> ServerSecret,
     exp |-> (t \div TicksPerSecond) + ttlSeconds(expiresAt, t)]

signAiAccessToken(sessionId, role, subject, expiresAt, t) ==
    [sessionId |-> sessionId, role |-> role, sub |-> subject, secret |-> ServerSecret,
     exp |-> (t \div TicksPerSecond) + ttlSeconds(expiresAt, t)]

\* jsonwebtoken verify(): raises on a bad signature and on an expired token.
jwtVerifyThrows(token, secret, t) ==
    token.secret # secret \/ (t \div TicksPerSecond) >= token.exp

\* verifyHostToken: "true", "false", or "throw" when jwt.verify raises.
verifyHostTokenUnsigned(token, sessionId, t) ==
    IF token.role = "host" /\ token.sessionId = sessionId THEN "true" ELSE "false"

verifyHostToken(token, sessionId, t) ==
    IF jwtVerifyThrows(token, ServerSecret, t) THEN "throw"
    ELSE IF token.role = "host" /\ token.sessionId = sessionId THEN "true"
    ELSE "false"

\* verifyAiAccessToken: the payload ("ok"), null, or "throw" when jwt.verify raises.
verifyAiAccessToken(token, sessionId, t) ==
    IF jwtVerifyThrows(token, ServerSecret, t) THEN "throw"
    ELSE IF token.sessionId # sessionId THEN "null"
    ELSE IF token.role # "host" /\ token.role # "participant" THEN "null"
    ELSE IF token.sub = "" THEN "null"
    ELSE "ok"

\* What a caller can put in the Authorization header or the token parameter:
\* nothing, a token the server signed, or one signed with another secret.
NoToken == [sessionId |-> "", role |-> "", sub |-> "", secret |-> "", exp |-> 0]

ForgedTokens ==
    {[sessionId |-> id, role |-> "host", sub |-> "host", secret |-> "other", exp |-> MaxTime + 1]
        : id \in SessionIds}
    \cup {[sessionId |-> id, role |-> "participant", sub |-> r, secret |-> "other",
           exp |-> MaxTime + 1] : id \in SessionIds, r \in ReqIds}

Presentable == issued \cup ForgedTokens
Bearers == {NoToken} \cup Presentable

(***************************************************************************)
(* The state before any request: an empty registry.                        *)
(***************************************************************************)
Envs ==
    {[JWT_SECRET |-> TRUE, OPENAI_API_KEY |-> TRUE, DAILY |-> TRUE],
     [JWT_SECRET |-> TRUE, OPENAI_API_KEY |-> FALSE, DAILY |-> TRUE],
     [JWT_SECRET |-> TRUE, OPENAI_API_KEY |-> TRUE, DAILY |-> FALSE],
     [JWT_SECRET |-> FALSE, OPENAI_API_KEY |-> TRUE, DAILY |-> TRUE]}

FullEnv == [JWT_SECRET |-> TRUE, OPENAI_API_KEY |-> TRUE, DAILY |-> TRUE]

\* body: the JSON body of a create request (scope: a string, or undefined)
NoBody == [type |-> "", scope |-> [defined |-> FALSE, text |-> <<>>], hasContext |-> FALSE]

NoResponse ==
    [op |-> "none", status |-> 0, sessionId |-> "", role |-> "", requestId |-> "",
     token |-> NoToken, minted |-> NoToken, conn |-> 0, body |-> NoBody]
\* failed tells that a room service request of the call was rejected; rooms
\* are the sessions whose room deletion is in flight.
\* lastStatus and events belong to a status stream: the status of the last
\* snapshot ("" before the first) and the events written to the response.
NoCall ==
    [op |-> "none", pc |-> "idle", sessionId |-> "", requestId |-> "", status |-> 0,
     token |-> NoToken, lastStatus |-> "", events |-> <<>>, from |-> 0,
     failed |-> FALSE, rooms |-> {}]
NoGuard ==
    [pc |-> "idle", apiKey |-> TRUE, scope |-> <<>>,
     outcome |-> [net |-> "ok", latency |-> 0, ok |-> TRUE, parses |-> TRUE, content |-> NoContent],
     result |-> Verdict(FALSE, "")]

(***************************************************************************)
(* SpecGuard: checkPromptInScope called on every input of the bounded      *)
(* input space.                                                            *)
(***************************************************************************)
Scopes == {<<>>, <<" ">>, <<"s">>}

GuardCall ==
    /\ guard.pc = "idle"
    /\ \E apiKey \in BOOLEAN, scope \in Scopes, outcome \in FetchOutcomes :
          guard' = [pc |-> "called", apiKey |-> apiKey, scope |-> scope,
                    outcome |-> outcome, result |-> Verdict(FALSE, "")]
    /\ UNCHANGED <<now, store, sessions, conns, tracked, http, calls, env, issued>>

GuardSettle ==
    /\ guard.pc = "called"
    /\ guard' = [guard EXCEPT !.pc = "settled",
                    !.result = checkPromptInScope(guard.apiKey, guard.scope, guard.outcome)]
    /\ UNCHANGED <<now, store, sessions, conns, tracked, http, calls, env, issued>>

\* The caller has taken the settlement; the function keeps no state between calls.
GuardReturn ==
    /\ guard.pc = "settled"
    /\ guard' = NoGuard
    /\ UNCHANGED <<now, store, sessions, conns, tracked, http, calls, env, issued>>

(***************************************************************************)
(* ws/aiRealtimeProxy.ts: one relay connection.                            *)
(*   client, upstream   readyState of the two sockets                      *)
(*   guardChain         messages received whose handler has not started    *)
(*   awaiting           messages whose handler waits for checkPromptInScope*)
(*   toUpstream         what upstream.send was called with, in order       *)
(*   toClient           what client.send was called with, in order         *)
(*   closeCode          the code the server closed the client socket with  *)
(*   effects            one entry per handler step: the message and what   *)
(*                      the step was ("start", or how the scope check      *)
(*                      settled: "inScope", "blocked", "threw")            *)
(***************************************************************************)
MsgKinds == {"user", "response.create", "session.update", "other", "unparsable"}

NoConn ==
    [live |-> FALSE, sessionId |-> "", clientKey |-> "",
     client |-> "CLOSED", upstream |-> "CLOSED", upstreamReady |-> FALSE,
     pendingToUpstream |-> <<>>, guardChain |-> <<>>, awaiting |-> {},
     lastUserPromptBlocked |-> FALSE, received |-> 0,
     toUpstream |-> <<>>, toClient |-> <<>>, closeCode |-> 0, effects |-> <<>>,
     fromUpstream |-> <<>>, relayed |-> <<>>]

NewConn(sessionId, clientKey) ==
    [NoConn EXCEPT !.live = TRUE, !.sessionId = sessionId, !.clientKey = clientKey,
                   !.client = "OPEN", !.upstream = "CONNECTING"]

Directive == [id |-> 0, kind |-> "directive", raw |-> FALSE]

\* client.send(...) guarded by client.readyState === WebSocket.OPEN
sendClientMuted(conn, event) == conn

sendClient(conn, event) ==
    IF conn.client = "OPEN" THEN [conn EXCEPT !.toClient = Append(@, event)] ELSE conn

\* safeClose: close whichever socket is OPEN or CONNECTING.
safeCloseNothing(conn) == conn

safeClose(conn) ==
    [conn EXCEPT
        !.client = IF @ \in {"OPEN", "CONNECTING"} THEN "CLOSING" ELSE @,
        !.closeCode = IF conn.client \in {"OPEN", "CONNECTING"} /\ @ = 0 THEN 1005 ELSE @,
        !.upstream = IF @ \in {"OPEN", "CONNECTING"} THEN "CLOSING" ELSE @]

\* Forward client message upstream (or queue until upstream is open).
forwardUnbuffered(conn, msg, raw) ==
    [conn EXCEPT !.toUpstream = Append(@, [id |-> msg.id, kind |-> msg.kind, raw |-> raw])]

forward(conn, msg, raw) ==
    LET data == [id |-> msg.id, kind |-> msg.kind, raw |-> raw]
    IN  IF conn.upstream = "OPEN" THEN [conn EXCEPT !.toUpstream = Append(@, data)]
        ELSE IF ~conn.upstreamReady THEN [conn EXCEPT !.pendingToUpstream = Append(@, data)]
        ELSE conn

\* A handler step works on the connection, the Session objects and the registry.
World(conn, sess, reg) == [conn |-> conn, sessions |-> sess, store |-> reg]

logEffect(w, msg, step) ==
    [w EXCEPT !.conn.effects = Append(@, [id |-> msg.id, step |-> step])]

\* lastUserPromptBlocked && msg.type === "response.create"
swallowedNever(conn, msg) == FALSE

swallowed(conn, msg) == conn.lastUserPromptBlocked /\ msg.kind = "response.create"

\* client.on("message") handler, from its start to the await (or to its end).
startHandler(w0, msg, t) ==
    LET w == logEffect(w0, msg, "start")
        conn == w.conn
        sid == conn.sessionId
    IN  IF conn.client # "OPEN" THEN w
        ELSE IF msg.kind = "unparsable" THEN [w EXCEPT !.conn = forward(conn, msg, TRUE)]
        ELSE IF swallowed(conn, msg) THEN w
        ELSE IF msg.kind = "session.update"
             THEN [w EXCEPT !.conn = sendClient(conn, "error:session.update")]
        ELSE IF msg.kind = "user"
             THEN IF sid \notin w.store
                  THEN [w EXCEPT !.conn = safeClose(sendClient(conn, "error:Session not found"))]
                  ELSE IF isExpired(w.sessions[sid], t)
                  THEN [w EXCEPT !.store = @ \ {sid},
                                 !.conn = safeClose(sendClient(conn, "error:Session expired"))]
                  ELSE [w EXCEPT !.conn.awaiting = @ \cup {msg}]
        ELSE [w EXCEPT !.conn = forward(conn, msg, FALSE)]

\* usage >= current.aiUsageLimit, before the increment
usageExhaustedOffByOne(usage, limit) == usage > limit

usageExhausted(usage, limit) == usage >= limit

\* current.aiUsageByClient.set(clientKey, nextUsage)
countUsageForAll(sess, sid, key, nextUsage) ==
    [sess EXCEPT ![sid].aiUsageByClient = [k \in DOMAIN @ |-> nextUsage]]

countUsage(sess, sid, key, nextUsage) ==
    [sess EXCEPT ![sid].aiUsageByClient[key] = nextUsage]

\* The same handler from the point where checkPromptInScope settles.
resumeHandler(w0, msg, scopeResult) ==
    LET w == logEffect([w0 EXCEPT !.conn.awaiting = @ \ {msg}], msg,
                       IF scopeResult.threw THEN "threw"
                       ELSE IF scopeResult.inScope THEN "inScope" ELSE "blocked")
        conn == w.conn
        sid == conn.sessionId
        key == conn.clientKey
        current == w.sessions[sid]
        usage == current.aiUsageByClient[key]
        nextUsage == usage + 1
    IN  IF scopeResult.threw THEN [w EXCEPT !.conn = forward(conn, msg, TRUE)]
        ELSE IF ~scopeResult.inScope
             THEN [w EXCEPT !.conn = sendClient([conn EXCEPT !.lastUserPromptBlocked = TRUE],
                                                "scope.violation")]
        ELSE LET c1 == [conn EXCEPT !.lastUserPromptBlocked = FALSE]
             IN  IF usageExhausted(usage, current.aiUsageLimit)
                 THEN [w EXCEPT !.conn = safeClose(sendClient(c1, "error:AI usage limit reached"))]
                 ELSE LET w1 == [w EXCEPT !.sessions = countUsage(@, sid, key, nextUsage)]
                          c2 == sendClient(c1, "quota.update")
                      IN  IF nextUsage >= current.aiUsageLimit
                          THEN [w1 EXCEPT !.conn = safeClose(sendClient(c2, "limit.reached"))]
                          ELSE [w1 EXCEPT !.conn = forward(c2, msg, FALSE)]

\* guardChain = guardChain.then(handler).catch(...): a handler starts when the
\* one before it has settled; the chain is busy while a handler awaits.
chainNeverBusy(conn) == FALSE

chainBusy(conn) == conn.awaiting # {}

RECURSIVE runChain(_, _)
runChain(w, t) ==
    IF w.conn.guardChain = <<>> \/ chainBusy(w.conn) THEN w
    ELSE runChain(startHandler([w EXCEPT !.conn.guardChain = Tail(@)],
                               Head(w.conn.guardChain), t), t)

(***************************************************************************)
(* Requests.  A handler runs to its response in one step; the response     *)
(* stays in http until it is delivered, and nothing else runs meanwhile.   *)
(***************************************************************************)
Idle == http.op = "none"

\* token: the one the request carried; minted: the one the response carries.
Response(op, status, sessionId, role, requestId, token, minted, conn) ==
    [op |-> op, status |-> status, sessionId |-> sessionId, role |-> role,
     requestId |-> requestId, token |-> token, minted |-> minted, conn |-> conn,
     body |-> NoBody]

Deliver ==
    /\ ~Idle
    /\ http' = NoResponse
    /\ UNCHANGED <<now, store, sessions, conns, tracked, calls, guard, env, issued>>

Tick ==
    /\ Idle
    /\ now < MaxTime
    /\ now' = now + 1
    /\ UNCHANGED <<store, sessions, conns, tracked, http, calls, guard, env, issued>>

(***************************************************************************)
(* routes/session.ts: POST /api/session, GET /api/session/:id              *)
(***************************************************************************)
Undefined == [defined |-> FALSE, text |-> <<>>]
Str(text) == [defined |-> TRUE, text |-> text]

CreateBodies ==
    [type : {"normal", "verdict", "other"},
     scope : {Undefined, Str(<<>>), Str(<<" ">>), Str(<<"s">>)},
     hasContext : BOOLEAN]

\* validateCreateSessionBody: TRUE when it returns, FALSE when it throws.
validateTypeOnly(body) == body.type = "normal" \/ body.type = "verdict"

validateCreateSessionBody(body) ==
    IF body.type # "normal" /\ body.type # "verdict" THEN FALSE
    ELSE IF body.type = "verdict"
         THEN body.scope.defined /\ trim(body.scope.text) # <<>>
         ELSE ~body.scope.defined /\ ~body.hasContext

CreateSession(ids, bodies) ==
    /\ Idle
    /\ \E body \in bodies :
          LET answer(status, id, hostToken) ==
                  [Response("create", status, id, "", "", NoToken, hostToken, 0)
                      EXCEPT !.body = body]
          IN  IF ~env.JWT_SECRET
              THEN /\ http' = answer(500, "", NoToken)
                   /\ UNCHANGED <<store, sessions, issued>>
              ELSE IF ~validateCreateSessionBody(body)
              THEN /\ http' = answer(400, "", NoToken)
                   /\ UNCHANGED <<store, sessions, issued>>
              ELSE \E limit \in 1..MaxUsageLimit, ttl \in 1..MaxTtl :
                     /\ \E fresh \in ids : ~sessions[fresh].created
                     /\ LET id == CHOOSE fresh \in ids : ~sessions[fresh].created
                            session == NewSession(body.type, body.scope, body.hasContext,
                                                  limit, ttl, now)
                            hostToken == signHostToken(id, session.expiresAt, now)
                        IN  /\ sessions' = [sessions EXCEPT ![id] = session]
                            /\ store' = store \cup {id}
                            /\ issued' = issued \cup {hostToken}
                            /\ http' = answer(201, id, hostToken)
    /\ UNCHANGED <<now, conns, tracked, calls, guard, env>>

GetSession(ids) ==
    /\ Idle
    /\ \E id \in ids :
          IF id \notin store
          THEN /\ http' = Response("get", 404, id, "", "", NoToken, NoToken, 0)
               /\ UNCHANGED store
          ELSE IF isExpired(sessions[id], now)
          THEN /\ store' = store \ {id}
               /\ http' = Response("get", 410, id, "", "", NoToken, NoToken, 0)
          ELSE /\ http' = Response("get", 200, id, "", "", NoToken, NoToken, 0)
               /\ UNCHANGED store
    /\ UNCHANGED <<now, sessions, conns, tracked, calls, guard, env, issued>>

(***************************************************************************)
(* services/aiRealtime.ts, routes/ai.ts                                    *)
(***************************************************************************)
\* assertVerdictAiAllowed: the message of the Error it throws, "" when it returns.
assertVerdictAiAllowed(reg, sess, sessionId, role, t) ==
    IF sessionId \notin reg THEN "Session not found"
    ELSE IF isExpired(sess[sessionId], t) THEN "Session expired"
    ELSE IF sess[sessionId].type # "verdict" THEN "AI is only available for verdict sessions"
    ELSE IF role # "host" /\ role # "participant" THEN "Invalid role"
    ELSE ""

\* ... and the registry it leaves: the expired session is deleted.
afterAssertKeeps(reg, sess, sessionId, t) == reg

afterAssert(reg, sess, sessionId, t) ==
    IF sessionId \in reg /\ isExpired(sess[sessionId], t) THEN reg \ {sessionId} ELSE reg

clientKeyOf(role, sub) == IF role = "host" THEN "host" ELSE ParticipantKey(sub)

usageOf(session, key) == IF key \in ClientKeys THEN session.aiUsageByClient[key] ELSE 0

\* POST /api/session/:id/ai/connect: the status it answers with.
connectStatus(sessionId, role, requestId, bearer) ==
    LET failure == assertVerdictAiAllowed(store, sessions, sessionId, role, now)
        session == sessions[sessionId]
    IN  IF ~env.JWT_SECRET THEN 500
        ELSE IF failure = "Session not found" THEN 404
        ELSE IF failure = "Session expired" THEN 410
        ELSE IF failure = "AI is only available for verdict sessions" THEN 403
        ELSE IF failure = "Invalid role" THEN 400
        ELSE IF role = "host" /\ bearer = NoToken THEN 401
        ELSE IF role = "host" /\ verifyHostToken(bearer, sessionId, now) = "throw" THEN 500
        ELSE IF role = "host" /\ verifyHostToken(bearer, sessionId, now) = "false" THEN 401
        ELSE IF role # "host" /\ requestId = "" THEN 400
        ELSE IF role # "host" /\ requestId \notin ReqIds THEN 404
        ELSE IF role # "host" /\ session.joinRequests[requestId].status = "none" THEN 404
        ELSE IF role # "host" /\ session.joinRequests[requestId].status # "admitted" THEN 403
        ELSE IF role # "host" /\ session.joinRequests[requestId].finalRole # "participant" THEN 403
        ELSE IF Max(0, session.aiUsageLimit
                       - usageOf(session, clientKeyOf(role, requestId))) <= 0 THEN 429
        ELSE 200

Negotiate(ids, roles, requestIds, bearers) ==
    /\ Idle
    /\ \E sessionId \in ids, role \in roles, requestId \in requestIds, bearer \in bearers :
          LET status == connectStatus(sessionId, role, requestId, bearer)
              subject == IF role = "host" THEN "host" ELSE requestId
              aiToken == IF status = 200
                         THEN signAiAccessToken(sessionId, role, subject,
                                                sessions[sessionId].expiresAt, now)
                         ELSE NoToken
          IN  /\ http' = Response("connect", status, sessionId, role, requestId, bearer, aiToken, 0)
              /\ issued' = IF status = 200 THEN issued \cup {aiToken} ELSE issued
              /\ store' = IF env.JWT_SECRET THEN afterAssert(store, sessions, sessionId, now)
                          ELSE store
    /\ UNCHANGED <<now, sessions, conns, tracked, calls, guard, env>>

(***************************************************************************)
(* ws/aiRealtimeProxy.ts: server.on("upgrade")                             *)
(***************************************************************************)
\* The status line the upgrade handler writes: 101 when it accepts, 0 when it
\* destroys the socket without writing one (the catch at the end).
upgradeStatus(sessionId, token, requestedRole) ==
    LET aiAuth == verifyAiAccessToken(token, sessionId, now)
        failure == assertVerdictAiAllowed(store, sessions, sessionId, token.role, now)
    IN  IF ~env.JWT_SECRET THEN 501
        ELSE IF token = NoToken THEN 401
        ELSE IF aiAuth = "throw" THEN 0
        ELSE IF aiAuth = "null" THEN 401
        ELSE IF requestedRole # "" /\ requestedRole # token.role THEN 400
        ELSE IF failure # "" THEN 403
        ELSE IF ~env.OPENAI_API_KEY THEN 501
        ELSE IF usageOf(sessions[sessionId], clientKeyOf(token.role, token.sub))
                    >= sessions[sessionId].aiUsageLimit THEN 429
        ELSE 101

\* Whether the handler got as far as assertVerdictAiAllowed.
reachesAssert(sessionId, token, requestedRole) ==
    /\ env.JWT_SECRET
    /\ token # NoToken
    /\ verifyAiAccessToken(token, sessionId, now) = "ok"
    /\ ~(requestedRole # "" /\ requestedRole # token.role)

FreeConns(slots) == {c \in slots : ~conns[c].live}

\* onRegisterConnection
register(map, sessionId, c) == [map EXCEPT ![sessionId] = @ \cup {c}]

\* onUnregisterConnection
unregisterKeeps(map, sessionId, c) == map

unregister(map, sessionId, c) == [map EXCEPT ![sessionId] = @ \ {c}]

Upgrade(slots, ids, tokens, requestedRoles) ==
    /\ Idle
    /\ \E sessionId \in ids, token \in tokens, requestedRole \in requestedRoles :
          LET status == upgradeStatus(sessionId, token, requestedRole)
              c == CHOOSE free \in FreeConns(slots) : \A other \in FreeConns(slots) : free <= other
              key == clientKeyOf(token.role, token.sub)
          IN  /\ status = 101 => FreeConns(slots) # {}
              /\ store' = IF reachesAssert(sessionId, token, requestedRole)
                          THEN afterAssert(store, sessions, sessionId, now)
                          ELSE store
              /\ IF status = 101
                 THEN /\ conns' = [conns EXCEPT ![c] = NewConn(sessionId, key)]
                      /\ tracked' = register(tracked, sessionId, c)
                      /\ http' = Response("upgrade", 101, sessionId, requestedRole, "",
                                          token, NoToken, c)
                 ELSE /\ http' = Response("upgrade", status, sessionId, requestedRole, "",
                                          token, NoToken, 0)
                      /\ UNCHANGED <<conns, tracked>>
    /\ UNCHANGED <<now, sessions, calls, guard, env, issued>>

(***************************************************************************)
(* ws/aiRealtimeProxy.ts: socket events of an accepted connection          *)
(***************************************************************************)
Received == conns[1].received + conns[2].received

\* What the classifier is made to answer while the relay runs.
RelayOutcomes ==
    {o \in FetchOutcomes :
        /\ o.latency \in {0, ScopeGuardTimeout}
        /\ o.net \in {"ok", "error"}
        /\ o.parses
        /\ o.content.text \in {<<>>, <<"Y", "e", "s">>, <<"n", "o">>}}

\* client.on("message"): the handler is appended to guardChain.
ClientMessage(c, kinds, budget) ==
    /\ Idle
    /\ conns[c].live
    /\ conns[c].client = "OPEN"
    /\ Received < budget
    /\ \E kind \in kinds :
          LET msg == [id |-> conns[c].received + 1, kind |-> kind]
              conn == [conns[c] EXCEPT !.received = @ + 1, !.guardChain = Append(@, msg)]
              w == runChain(World(conn, sessions, store), now)
          IN  /\ conns' = [conns EXCEPT ![c] = w.conn]
              /\ sessions' = w.sessions
              /\ store' = w.store
    /\ UNCHANGED <<now, tracked, http, calls, guard, env, issued>>

\* checkPromptInScope settles; the handler continues, then the chain moves on.
GuardResume(c) ==
    /\ Idle
    /\ conns[c].live
    /\ \E msg \in conns[c].awaiting, outcome \in RelayOutcomes :
          LET scopeResult == checkPromptInScope(env.OPENAI_API_KEY,
                                                sessions[conns[c].sessionId].scope, outcome)
              w == runChain(resumeHandler(World(conns[c], sessions, store), msg, scopeResult),
                            now)
          IN  /\ conns' = [conns EXCEPT ![c] = w.conn]
              /\ sessions' = w.sessions
              /\ store' = w.store
    /\ UNCHANGED <<now, tracked, http, calls, guard, env, issued>>

\* upstream.on("open")
RECURSIVE flush(_)
flushNewestFirst(conn) ==
    IF conn.upstream # "OPEN" THEN conn
    ELSE LET n == Len(conn.pendingToUpstream)
         IN  [conn EXCEPT !.toUpstream = @ \o [i \in 1..n |-> conn.pendingToUpstream[n + 1 - i]],
                          !.pendingToUpstream = <<>>]

flush(conn) ==
    IF conn.pendingToUpstream = <<>> \/ conn.upstream # "OPEN" THEN conn
    ELSE flush([conn EXCEPT !.toUpstream = Append(@, Head(conn.pendingToUpstream)),
                            !.pendingToUpstream = Tail(@)])

UpstreamOpen(c) ==
    /\ Idle
    /\ conns[c].live
    /\ conns[c].upstream = "CONNECTING"
    /\ LET opened == [conns[c] EXCEPT !.upstream = "OPEN",
                                      !.toUpstream = Append(@, Directive),
                                      !.upstreamReady = TRUE]
           greeted == sendClient(sendClient(opened, "upstream.ready"), "quota.snapshot")
       IN  conns' = [conns EXCEPT ![c] = flush(greeted)]
    /\ UNCHANGED <<now, store, sessions, tracked, http, calls, guard, env, issued>>

\* upstream.on("message").  A frame is binary or not, and ws hands its data
\* over as a Buffer or as a string; the frame kind client.send(data) would
\* pick without options is binary for a Buffer.  ws hands over text frames
\* only when they are valid UTF-8, so data.toString("utf8") keeps the payload:
\* a frame is identified by its id.
UpstreamFrames ==
    {[isBinary |-> TRUE, data |-> "Buffer"], [isBinary |-> FALSE, data |-> "Buffer"],
     [isBinary |-> FALSE, data |-> "string"]}

clientFrameByData(frame) == [id |-> frame.id, binary |-> frame.data = "Buffer"]

clientFrame(frame) == [id |-> frame.id, binary |-> frame.isBinary]

relay(conn, frame) ==
    IF conn.client # "OPEN" THEN conn
    ELSE [conn EXCEPT !.relayed = Append(@, clientFrame(frame))]

UpstreamMessage(c, budget) ==
    /\ Idle
    /\ conns[c].live
    /\ conns[c].upstream \in {"OPEN", "CLOSING"}
    /\ Len(conns[c].fromUpstream) < budget
    /\ \E f \in UpstreamFrames :
          LET frame == [id |-> Len(conns[c].fromUpstream) + 1, isBinary |-> f.isBinary,
                        data |-> f.data,
                        clientOpen |-> conns[c].client = "OPEN"]
          IN  conns' = [conns EXCEPT ![c] = relay([@ EXCEPT !.fromUpstream = Append(@, frame)],
                                                  frame)]
    /\ UNCHANGED <<now, store, sessions, tracked, http, calls, guard, env, issued>>

\* onClose: unregister, then safeClose.
onClose(c) ==
    /\ tracked' = unregister(tracked, conns[c].sessionId, c)

\* client.on("close") / client.on("error"): the peer went away, or a close
\* the server started has completed.
ClientClosed(c) ==
    /\ Idle
    /\ conns[c].live
    /\ conns[c].client \in {"OPEN", "CLOSING"}
    /\ conns' = [conns EXCEPT ![c] = safeClose([@ EXCEPT !.client = "CLOSED"])]
    /\ onClose(c)
    /\ UNCHANGED <<now, store, sessions, http, calls, guard, env, issued>>

\* upstream.on("close") / upstream.on("error")
UpstreamClosed(c) ==
    /\ Idle
    /\ conns[c].live
    /\ conns[c].upstream \in {"CONNECTING", "OPEN", "CLOSING"}
    /\ conns' = [conns EXCEPT ![c] = safeClose([@ EXCEPT !.upstream = "CLOSED"])]
    /\ onClose(c)
    /\ UNCHANGED <<now, store, sessions, http, calls, guard, env, issued>>

(***************************************************************************)
(* server.ts: the cleanup interval                                         *)
(***************************************************************************)
\* c.client.close(4000, "Session expired"); c.upstream.close()
forceClose(conn) ==
    [conn EXCEPT
        !.client = IF @ = "OPEN" THEN "CLOSING" ELSE @,
        !.closeCode = IF conn.client = "OPEN" THEN 4000 ELSE @,
        !.upstream = IF @ \in {"OPEN", "CONNECTING"} THEN "CLOSING" ELSE @]

expiredInStoreAll(t) == store

expiredInStore(t) == {id \in store : isExpired(sessions[id], t)}

roomsToDelete(expired) == IF env.DAILY THEN expired ELSE {}

Sweep ==
    /\ Idle
    /\ LET expired == expiredInStore(now)
       IN  /\ store' = store \ expired
           /\ conns' = [c \in ConnIds |->
                          IF \E id \in expired : c \in tracked[id]
                          THEN forceClose(conns[c]) ELSE conns[c]]
           /\ tracked' = [id \in DOMAIN tracked |-> IF id \in expired THEN {} ELSE tracked[id]]
           /\ calls' = [calls EXCEPT ![Reaper].rooms = @ \cup roomsToDelete(expired)]
    /\ http' = [NoResponse EXCEPT !.op = "sweep"]
    /\ UNCHANGED <<now, sessions, guard, env, issued>>

\* void deleteDailyRoom(...).catch(() => {}): the request settles later
RoomDeletionSettled ==
    /\ Idle
    /\ \E id \in calls[Reaper].rooms, ok \in BOOLEAN :
          calls' = [calls EXCEPT ![Reaper].rooms = @ \ {id},
                                 ![Reaper].failed = @ \/ ~ok]
    /\ UNCHANGED <<now, store, sessions, conns, tracked, http, guard, env, issued>>

(***************************************************************************)
(* routes/session.ts: join requests, admit, deny, end                      *)
(***************************************************************************)
JoinRoles == {"participant", "observer", "host"}

\* validateJoinBody
validateJoinBody(role) == role = "participant" \/ role = "observer"

FreeReqs(session) == {r \in ReqIds : session.joinRequests[r].status = "none"}

RequestJoin(ids) ==
    /\ Idle
    /\ \E id \in ids, role \in JoinRoles :
          IF id \notin store
          THEN /\ http' = Response("join-request", 404, id, role, "", NoToken, NoToken, 0)
               /\ UNCHANGED <<store, sessions>>
          ELSE IF isExpired(sessions[id], now)
          THEN /\ store' = store \ {id}
               /\ http' = Response("join-request", 410, id, role, "", NoToken, NoToken, 0)
               /\ UNCHANGED sessions
          ELSE IF ~validateJoinBody(role)
          THEN /\ http' = Response("join-request", 400, id, role, "", NoToken, NoToken, 0)
               /\ UNCHANGED <<store, sessions>>
          ELSE /\ FreeReqs(sessions[id]) # {}
               /\ LET requestId == CHOOSE r \in FreeReqs(sessions[id]) : TRUE
                  IN  /\ sessions' = [sessions EXCEPT ![id].joinRequests[requestId] =
                                        [NoRequest EXCEPT !.status = "pending",
                                                          !.requestedRole = role,
                                                          !.createdAt = now,
                                                          !.history = <<"pending">>]]
                      /\ http' = Response("join-request", 201, id, role, requestId,
                                          NoToken, NoToken, 0)
               /\ UNCHANGED store
    /\ UNCHANGED <<now, conns, tracked, calls, guard, env, issued>>

\* The checks admit, deny and end share, up to the host token: the status of
\* the HttpError thrown (500 when verifyHostToken itself raises), 0 when all pass.
hostGate(sessionId, bearer) ==
    IF ~env.JWT_SECRET THEN 500
    ELSE IF sessionId \notin store THEN 404
    ELSE IF isExpired(sessions[sessionId], now) THEN 410
    ELSE IF bearer = NoToken THEN 401
    ELSE IF verifyHostToken(bearer, sessionId, now) = "throw" THEN 500
    ELSE IF verifyHostToken(bearer, sessionId, now) = "false" THEN 401
    ELSE 0

\* ... and the join request checks of admit and deny.
decisionGate(sessionId, requestId, bearer) ==
    IF hostGate(sessionId, bearer) # 0 THEN hostGate(sessionId, bearer)
    ELSE IF requestId \notin ReqIds THEN 404
    ELSE IF sessions[sessionId].joinRequests[requestId].status = "none" THEN 404
    ELSE IF sessions[sessionId].joinRequests[requestId].status # "pending" THEN 409
    ELSE 0

\* store.delete on the "Session expired" path of these handlers.
afterGate(sessionId) ==
    IF env.JWT_SECRET /\ sessionId \in store /\ isExpired(sessions[sessionId], now)
    THEN store \ {sessionId} ELSE store

\* token: the bearer token the request carried
Call(op, pc, sessionId, requestId, status, token) ==
    [NoCall EXCEPT !.op = op, !.pc = pc, !.sessionId = sessionId, !.requestId = requestId,
                   !.status = status, !.token = token]

\* POST .../admit, up to await ensureDailyRoom
AdmitStart(h, ids, requestIds, bearers) ==
    /\ Idle
    /\ calls[h].op = "none"
    /\ \E sessionId \in ids, requestId \in requestIds, bearer \in bearers :
          LET status == IF env.JWT_SECRET /\ ~env.DAILY THEN 500
                        ELSE decisionGate(sessionId, requestId, bearer)
          IN  /\ calls' = [calls EXCEPT ![h] =
                             IF status = 0
                             THEN Call("admit", "ensureDailyRoom", sessionId, requestId, 0, bearer)
                             ELSE Call("admit", "done", sessionId, requestId, status, bearer)]
              /\ store' = IF env.DAILY THEN afterGate(sessionId) ELSE store
    /\ UNCHANGED <<now, sessions, conns, tracked, http, guard, env, issued>>

\* ensureDailyRoom settles
AdmitRoomEnsured(h) ==
    /\ Idle
    /\ calls[h].op = "admit" /\ calls[h].pc = "ensureDailyRoom"
    /\ \E ok \in BOOLEAN :
          calls' = [calls EXCEPT ![h] = IF ok THEN [@ EXCEPT !.pc = "createDailyMeetingToken"]
                                        ELSE [@ EXCEPT !.pc = "done", !.status = 500,
                                                       !.failed = TRUE]]
    /\ UNCHANGED <<now, store, sessions, conns, tracked, http, guard, env, issued>>

\* createDailyMeetingToken settles; the handler writes the join request
admitWriteStatusOnly(jr, t) ==
    [jr EXCEPT !.status = "admitted", !.decidedAt = t, !.history = Append(@, "admitted")]

admitWrite(jr, t) ==
    [jr EXCEPT !.status = "admitted", !.decidedAt = t, !.finalRole = jr.requestedRole,
               !.roomUrl = TRUE, !.dailyToken = TRUE,
               !.history = Append(@, "admitted")]

\* the writes follow both awaits: a rejected await leaves the request alone
afterMintWritesFirst(jr, ok, t) == admitWrite(jr, t)

afterMint(jr, ok, t) == IF ok THEN admitWrite(jr, t) ELSE jr

AdmitTokenMinted(h) ==
    /\ Idle
    /\ calls[h].op = "admit" /\ calls[h].pc = "createDailyMeetingToken"
    /\ \E ok \in BOOLEAN :
          /\ sessions' = [sessions EXCEPT
                            ![calls[h].sessionId].joinRequests[calls[h].requestId] =
                                afterMint(@, ok, now)]
          /\ calls' = [calls EXCEPT ![h].pc = "done",
                                    ![h].status = IF ok THEN 200 ELSE 500,
                                    ![h].failed = ~ok]
    /\ UNCHANGED <<now, store, conns, tracked, http, guard, env, issued>>

\* POST .../deny
denyWrite(jr, t) ==
    [jr EXCEPT !.status = "denied", !.decidedAt = t, !.history = Append(@, "denied")]

Deny(h, ids, requestIds, bearers) ==
    /\ Idle
    /\ calls[h].op = "none"
    /\ \E sessionId \in ids, requestId \in requestIds, bearer \in bearers :
          LET status == decisionGate(sessionId, requestId, bearer)
          IN  /\ calls' = [calls EXCEPT ![h] =
                             Call("deny", "done", sessionId, requestId,
                                  IF status = 0 THEN 200 ELSE status, bearer)]
              /\ store' = afterGate(sessionId)
              /\ sessions' = IF status = 0
                             THEN [sessions EXCEPT ![sessionId].joinRequests[requestId] =
                                     denyWrite(@, now)]
                             ELSE sessions
    /\ UNCHANGED <<now, conns, tracked, http, guard, env, issued>>

\* POST /api/session/:id/join (the host joins): ensureDailyRoom and
\* createDailyMeetingToken touch the room service only; ok is whether both succeed.
joinStatus(sessionId, bearer, ok) ==
    IF ~env.JWT_SECRET \/ ~env.DAILY THEN 500
    ELSE IF hostGate(sessionId, bearer) # 0 THEN hostGate(sessionId, bearer)
    ELSE IF ~ok THEN 500
    ELSE 200

JoinAsHost(ids, bearers) ==
    /\ Idle
    /\ \E sessionId \in ids, bearer \in bearers, ok \in BOOLEAN :
          /\ http' = Response("join", joinStatus(sessionId, bearer, ok), sessionId, "host", "",
                              bearer, NoToken, 0)
          /\ store' = IF env.DAILY THEN afterGate(sessionId) ELSE store
    /\ UNCHANGED <<now, sessions, conns, tracked, calls, guard, env, issued>>

\* POST .../end, up to await deleteDailyRoom
EndStart(h, ids, bearers) ==
    /\ Idle
    /\ calls[h].op = "none"
    /\ \E sessionId \in ids, bearer \in bearers :
          LET status == hostGate(sessionId, bearer)
          IN  /\ calls' = [calls EXCEPT ![h] =
                             IF status # 0 THEN Call("end", "done", sessionId, "", status, bearer)
                             ELSE IF env.DAILY
                             THEN Call("end", "deleteDailyRoom", sessionId, "", 0, bearer)
                             ELSE Call("end", "done", sessionId, "", 200, bearer)]
              /\ store' = IF status = 0 THEN store \ {sessionId} ELSE afterGate(sessionId)
    /\ UNCHANGED <<now, sessions, conns, tracked, http, guard, env, issued>>

\* try { await deleteDailyRoom(...) } catch { }  return res.status(200)
endStatusPropagates(ok) == IF ok THEN 200 ELSE 500

endStatus(ok) == 200

\* deleteDailyRoom settles, either way
EndRoomDeleted(h) ==
    /\ Idle
    /\ calls[h].op = "end" /\ calls[h].pc = "deleteDailyRoom"
    /\ \E ok \in BOOLEAN :
          calls' = [calls EXCEPT ![h].pc = "done", ![h].status = endStatus(ok),
                                 ![h].failed = ~ok]
    /\ UNCHANGED <<now, store, sessions, conns, tracked, http, guard, env, issued>>

\* GET /api/session/:id/join-request/:requestId/stream
snapshot(jr) ==
    [event |-> "status", status |-> jr.status, role |-> jr.finalRole,
     roomUrl |-> jr.roomUrl, dailyToken |-> jr.dailyToken]

ErrorEvent == [event |-> "error", status |-> "", role |-> "", roomUrl |-> FALSE,
               dailyToken |-> FALSE]

\* res.write on a response that res.end() has finished reaches nobody.
writeSseEvent(call, event) ==
    IF call.pc = "streaming" THEN [call EXCEPT !.events = Append(@, event)] ELSE call

resEnd(call) == IF call.pc = "streaming" THEN [call EXCEPT !.pc = "ended"] ELSE call

sendSnapshot(call, current) ==
    IF current.status = "none"
    THEN resEnd(writeSseEvent(call, ErrorEvent))
    ELSE LET changed == call.lastStatus = "" \/ current.status # call.lastStatus
             written == IF changed
                        THEN writeSseEvent([call EXCEPT !.lastStatus = current.status],
                                           snapshot(current))
                        ELSE call
         IN  IF current.status \in {"admitted", "denied"} THEN resEnd(written) ELSE written

StreamOpen(g, ids, requestIds) ==
    /\ Idle
    /\ calls[g].op = "none"
    /\ \E sessionId \in ids, requestId \in requestIds :
          IF sessionId \notin store
          THEN /\ calls' = [calls EXCEPT ![g] =
                              Call("stream", "done", sessionId, requestId, 404, NoToken)]
               /\ UNCHANGED store
          ELSE IF isExpired(sessions[sessionId], now)
          THEN /\ store' = store \ {sessionId}
               /\ calls' = [calls EXCEPT ![g] =
                              Call("stream", "done", sessionId, requestId, 410, NoToken)]
          ELSE IF sessions[sessionId].joinRequests[requestId].status = "none"
          THEN /\ calls' = [calls EXCEPT ![g] =
                              Call("stream", "done", sessionId, requestId, 404, NoToken)]
               /\ UNCHANGED store
          ELSE LET current == sessions[sessionId].joinRequests[requestId]
                   opened == [Call("stream", "streaming", sessionId, requestId, 200, NoToken)
                                EXCEPT !.from = Len(current.history)]
               IN  /\ calls' = [calls EXCEPT ![g] = sendSnapshot(opened, current)]
                   /\ UNCHANGED store
    /\ UNCHANGED <<now, sessions, conns, tracked, http, guard, env, issued>>

\* The setInterval callback, every 1000 ms until the request's "close" event;
\* res.end() does not stop it.
StreamPoll(g) ==
    /\ Idle
    /\ calls[g].op = "stream" /\ calls[g].pc \in {"streaming", "ended"}
    /\ LET sessionId == calls[g].sessionId
       IN  IF sessionId \notin store
           THEN /\ calls' = [calls EXCEPT ![g] = resEnd(writeSseEvent(@, ErrorEvent))]
                /\ UNCHANGED store
           ELSE IF isExpired(sessions[sessionId], now)
           THEN /\ store' = store \ {sessionId}
                /\ calls' = [calls EXCEPT ![g] = resEnd(writeSseEvent(@, ErrorEvent))]
           ELSE /\ calls' = [calls EXCEPT ![g] =
                               sendSnapshot(@, sessions[sessionId].joinRequests[@.requestId])]
                /\ UNCHANGED store
    /\ UNCHANGED <<now, sessions, conns, tracked, http, guard, env, issued>>

\* req.on("close"): the client went away or the ended response's socket closed
StreamClosed(g) ==
    /\ Idle
    /\ calls[g].op = "stream" /\ calls[g].pc \in {"streaming", "ended"}
    /\ calls' = [calls EXCEPT ![g].pc = "closed"]
    /\ UNCHANGED <<now, store, sessions, conns, tracked, http, guard, env, issued>>

(***************************************************************************)
(* Specifications.                                                         *)
(***************************************************************************)
Init ==
    /\ now = 0
    /\ store = {}
    /\ sessions = [id \in StoreIds |-> NoSession]
    /\ conns = [c \in ConnIds |-> NoConn]
    /\ tracked = [id \in StoreIds |-> {}]
    /\ http = NoResponse
    /\ calls = [h \in Callers \cup Subscribers \cup {Reaper} |-> NoCall]
    /\ guard = NoGuard
    /\ env = FullEnv
    /\ issued = {}

\* The classifier call alone.
SpecGuardNext == GuardCall \/ GuardSettle \/ GuardReturn

SpecGuard == Init /\ [][SpecGuardNext]_vars

\* Registry, relay and sweep.
VerdictBodies == {[type |-> "verdict", scope |-> Str(<<"s">>), hasContext |-> FALSE]}
HostTokens == {t \in issued : t.role = "host" /\ t.sub = ""}
AiTokens == {t \in issued : t.sub # ""}

\* One relay connection, every kind of client message, every kind of token.
Next ==
    \/ Deliver
    \/ CreateSession(SessionIds, VerdictBodies)
    \/ Negotiate(SessionIds, {"host"}, {""}, HostTokens)
    \/ Upgrade({1}, PathIds, {NoToken} \cup AiTokens \cup ForgedTokens, {""})
    \/ \E c \in ConnIds : ClientMessage(c, MsgKinds, MaxMsgs)
    \/ \E c \in ConnIds : GuardResume(c)
    \/ \E c \in ConnIds : UpstreamOpen(c)
    \/ \E c \in ConnIds : ClientClosed(c)
    \/ \E c \in ConnIds : UpstreamClosed(c)

Spec == Init /\ [][Next]_vars

\* Two relay connections of the same client, user messages only.
SharedNext ==
    \/ Deliver
    \/ CreateSession(SessionIds, VerdictBodies)
    \/ Negotiate(SessionIds, {"host"}, {""}, HostTokens)
    \/ Upgrade(ConnIds, SessionIds, AiTokens, {""})
    \/ \E c \in ConnIds : ClientMessage(c, {"user"}, MaxSharedMsgs)
    \/ \E c \in ConnIds : GuardResume(c)
    \/ \E c \in ConnIds : UpstreamOpen(c)
    \/ \E c \in ConnIds : ClientClosed(c)
    \/ \E c \in ConnIds : UpstreamClosed(c)

SpecShared == Init /\ [][SharedNext]_vars

\* One relay connection with traffic in both directions.
DuplexNext ==
    \/ Deliver
    \/ CreateSession(SessionIds, VerdictBodies)
    \/ Negotiate(SessionIds, {"host"}, {""}, HostTokens)
    \/ Upgrade({1}, SessionIds, AiTokens, {""})
    \/ \E c \in ConnIds : ClientMessage(c, MsgKinds, MaxSharedMsgs)
    \/ \E c \in ConnIds : GuardResume(c)
    \/ \E c \in ConnIds : UpstreamOpen(c)
    \/ \E c \in ConnIds : UpstreamMessage(c, MaxUpstreamMsgs)
    \/ \E c \in ConnIds : ClientClosed(c)
    \/ \E c \in ConnIds : UpstreamClosed(c)

SpecDuplex == Init /\ [][DuplexNext]_vars

\* The session lifecycle: clock, lazy expiry, sweep, end; one relay connection.
LifeNext ==
    \/ Deliver
    \/ Tick
    \/ CreateSession(SessionIds, VerdictBodies)
    \/ GetSession(SessionIds)
    \/ Negotiate(SessionIds, {"host"}, {""}, HostTokens)
    \/ Upgrade({1}, SessionIds, AiTokens, {""})
    \/ \E c \in ConnIds : ClientMessage(c, {"user"}, MaxSharedMsgs)
    \/ \E c \in ConnIds : GuardResume(c)
    \/ \E c \in ConnIds : UpstreamOpen(c)
    \/ \E c \in ConnIds : ClientClosed(c)
    \/ \E c \in ConnIds : UpstreamClosed(c)
    \/ EndStart("h1", SessionIds, HostTokens)
    \/ EndRoomDeleted("h1")
    \/ Sweep

SpecLife == Init /\ [][LifeNext]_vars

\* The session life cycle with the sockets' close events delivered: a socket
\* that is CLOSING emits "close", and the event loop runs the listener.
CloseNext ==
    \/ Deliver
    \/ Tick
    \/ CreateSession(SessionIds, VerdictBodies)
    \/ Negotiate(SessionIds, {"host"}, {""}, HostTokens)
    \/ Upgrade({1}, SessionIds, AiTokens, {""})
    \/ \E c \in ConnIds : ClientMessage(c, {"user"}, MaxSharedMsgs)
    \/ \E c \in ConnIds : GuardResume(c)
    \/ \E c \in ConnIds : UpstreamOpen(c)
    \/ \E c \in ConnIds : ClientClosed(c)
    \/ \E c \in ConnIds : UpstreamClosed(c)
    \/ Sweep

SpecClose ==
    /\ Init
    /\ [][CloseNext]_vars
    /\ WF_vars(Deliver)
    /\ \A c \in ConnIds : SF_vars(ClientClosed(c) /\ conns[c].client = "CLOSING")
    /\ \A c \in ConnIds : SF_vars(UpstreamClosed(c) /\ conns[c].upstream = "CLOSING")


\* Join requests and the host's decisions, two callers at a time.
JoinNext ==
    \/ Deliver
    \/ Tick
    \/ CreateSession(SessionIds, VerdictBodies)
    \/ RequestJoin(SessionIds)
    \/ \E h \in Callers : AdmitStart(h, SessionIds, ReqIds, {NoToken} \cup HostTokens)
    \/ \E h \in Callers : AdmitRoomEnsured(h)
    \/ \E h \in Callers : AdmitTokenMinted(h)
    \/ \E h \in Callers : Deny(h, SessionIds, ReqIds, {NoToken} \cup HostTokens)

SpecJoin == Init /\ [][JoinNext]_vars

\* The join handlers with a guest following its request on the status stream.
StreamNext ==
    \/ Deliver
    \/ Tick
    \/ CreateSession(SessionIds, VerdictBodies)
    \/ RequestJoin(SessionIds)
    \/ \E h \in Callers : AdmitStart(h, SessionIds, ReqIds, HostTokens)
    \/ \E h \in Callers : AdmitRoomEnsured(h)
    \/ \E h \in Callers : AdmitTokenMinted(h)
    \/ \E h \in Callers : Deny(h, SessionIds, ReqIds, HostTokens)
    \/ \E g \in Subscribers : StreamOpen(g, PathIds, ReqIds)
    \/ \E g \in Subscribers : StreamPoll(g)
    \/ \E g \in Subscribers : StreamClosed(g)

SpecStream == Init /\ [][StreamNext]_vars

\* Relay entry: every configuration, both session types, the clock, and every
\* token a caller can present; one relay connection spending the quota.
EntryEnvs == {e \in Envs : e.DAILY}

InitEntry ==
    /\ now = 0
    /\ store = {}
    /\ sessions = [id \in StoreIds |-> NoSession]
    /\ conns = [c \in ConnIds |-> NoConn]
    /\ tracked = [id \in StoreIds |-> {}]
    /\ http = NoResponse
    /\ calls = [h \in Callers \cup Subscribers \cup {Reaper} |-> NoCall]
    /\ guard = NoGuard
    /\ env \in EntryEnvs
    /\ issued = {}

EntryBodies ==
    VerdictBodies \cup {[type |-> "normal", scope |-> Undefined, hasContext |-> FALSE]}

EntryNext ==
    \/ Deliver
    \/ Tick
    \/ CreateSession(SessionIds, EntryBodies)
    \/ Negotiate(SessionIds, {"host"}, {""}, HostTokens)
    \/ Upgrade({1}, PathIds, Bearers, {"", "participant"})
    \/ \E c \in ConnIds : ClientMessage(c, {"user"}, MaxSharedMsgs)
    \/ \E c \in ConnIds : GuardResume(c)
    \/ \E c \in ConnIds : UpstreamOpen(c)
    \/ \E c \in ConnIds : ClientClosed(c)
    \/ \E c \in ConnIds : UpstreamClosed(c)

SpecEntry == InitEntry /\ [][EntryNext]_vars

\* The host-only operations, negotiateAiAccess and relay entry, called with
\* every token a caller can present, while the clock runs; one host-only call.
HostNext ==
    \/ Deliver
    \/ Tick
    \/ CreateSession(SessionIds, EntryBodies)
    \/ RequestJoin(SessionIds)
    \/ JoinAsHost(SessionIds, Bearers)
    \/ Negotiate(SessionIds, {"host", "participant", "observer"}, {"", "r1"}, Bearers)
    \/ Upgrade({1}, SessionIds, Bearers, {""})
    \/ AdmitStart("h1", SessionIds, ReqIds, Bearers)
    \/ AdmitRoomEnsured("h1")
    \/ AdmitTokenMinted("h1")
    \/ Deny("h1", SessionIds, ReqIds, Bearers)
    \/ EndStart("h1", SessionIds, Bearers)
    \/ EndRoomDeleted("h1")

SpecHost == Init /\ [][HostNext]_vars

\* The registry alone: creation with every body, lookup of every id, end,
\* and the cleanup interval, while the clock runs.
RegistryNext ==
    \/ Deliver
    \/ Tick
    \/ CreateSession(SessionIds, CreateBodies)
    \/ GetSession(PathIds)
    \/ EndStart("h1", SessionIds, HostTokens)
    \/ EndRoomDeleted("h1")
    \/ Sweep

SpecRegistry == InitEntry /\ [][RegistryNext]_vars

\* Two sessions with relay connections, the cleanup interval and endSession,
\* with the room service answering or failing.
ReapNext ==
    \/ Deliver
    \/ Tick
    \/ CreateSession(StoreIds, VerdictBodies)
    \/ Negotiate(StoreIds, {"host"}, {""}, HostTokens)
    \/ Upgrade({1}, StoreIds, AiTokens, {""})
    \/ \E c \in ConnIds : UpstreamOpen(c)
    \/ EndStart("h1", StoreIds, HostTokens)
    \/ EndRoomDeleted("h1")
    \/ Sweep
    \/ RoomDeletionSettled

SpecReap == Init /\ [][ReapNext]_vars

(***************************************************************************)
(* Observations shared by the properties.                                  *)
(***************************************************************************)
Range(seq) == {seq[i] : i \in 1..Len(seq)}

RECURSIVE Sum(_, _)
Sum(f, S) == IF S = {} THEN 0 ELSE LET x == CHOOSE y \in S : TRUE IN f[x] + Sum(f, S \ {x})

ConnsOf(id, key) == {c \in ConnIds : conns[c].live /\ conns[c].sessionId = id /\ conns[c].clientKey = key}

\* user-content messages upstream.send was called with, all connections of one client
UserSent(id, key) ==
    Sum([c \in ConnIds |-> Cardinality({i \in 1..Len(conns[c].toUpstream) :
                                           conns[c].toUpstream[i].kind = "user"})],
        ConnsOf(id, key))

\* user-content messages the handler passed on after its checks: sent or queued
UserAccepted(id, key) ==
    Sum([c \in ConnIds |->
            Cardinality({i \in 1..Len(conns[c].toUpstream) :
                            conns[c].toUpstream[i].kind = "user" /\ ~conns[c].toUpstream[i].raw})
            + Cardinality({i \in 1..Len(conns[c].pendingToUpstream) :
                            conns[c].pendingToUpstream[i].kind = "user"
                            /\ ~conns[c].pendingToUpstream[i].raw})],
        ConnsOf(id, key))

EventsSent(id, key, event) ==
    Sum([c \in ConnIds |-> Cardinality({i \in 1..Len(conns[c].toClient) :
                                           conns[c].toClient[i] = event})],
        ConnsOf(id, key))

PassedOn(conn) == {d.id : d \in Range(conn.toUpstream) \cup Range(conn.pendingToUpstream)}

SocketsClosed(conn) ==
    conn.client \in {"CLOSING", "CLOSED"} /\ conn.upstream \in {"CLOSING", "CLOSED"}

(***************************************************************************)
(* C1: for a pending join request, when two admit/deny calls with a valid  *)
(* host token overlap, exactly one succeeds, the other fails with 409, and *)
(* the final status is the one written by the call that succeeded.         *)
(***************************************************************************)
Decided(h) == calls[h].op \in {"admit", "deny"} /\ calls[h].pc = "done"

SameRequest(a, b) ==
    calls[a].sessionId = calls[b].sessionId /\ calls[a].requestId = calls[b].requestId

OneDecisionWins ==
    \A a, b \in Callers :
        a # b /\ Decided(a) /\ Decided(b) /\ SameRequest(a, b) /\ calls[a].status = 200
            => /\ calls[b].status # 200
               /\ sessions[calls[a].sessionId].joinRequests[calls[a].requestId].status
                    = (IF calls[a].op = "admit" THEN "admitted" ELSE "denied")

(***************************************************************************)
(* C2: in every reachable state, for every session and client key, the     *)
(* usage counter of the key is at most aiUsageLimit, and the number of     *)
(* that client's user-content messages forwarded upstream is at most       *)
(* aiUsageLimit.                                                           *)
(***************************************************************************)
QuotaBoundsUsageAndForwarding ==
    \A id \in SessionIds, key \in ClientKeys :
        sessions[id].created
            => /\ sessions[id].aiUsageByClient[key] <= sessions[id].aiUsageLimit
               /\ UserSent(id, key) <= sessions[id].aiUsageLimit

(***************************************************************************)
(* C3: a user-content message whose scope check does not return in-scope   *)
(* (a deny verdict, or the classifier call failing) is never forwarded     *)
(* upstream, neither sent nor queued, and sets lastUserPromptBlocked.      *)
(***************************************************************************)
NotInScopeNeverForwarded ==
    \A c \in ConnIds :
        \A i \in 1..Len(conns[c].effects) :
            conns[c].effects[i].step \in {"blocked", "threw"}
                => /\ conns[c].effects[i].id \notin PassedOn(conns[c])
                   /\ (\A j \in (i + 1)..Len(conns[c].effects) :
                          conns[c].effects[j].step = "start")
                        => conns[c].lastUserPromptBlocked

(***************************************************************************)
(* C4: on one relay connection the handler steps of the client messages    *)
(* happen in arrival order: every step of a message (start, scope verdict, *)
(* usage increment, forward or drop) comes before any step of the next     *)
(* message, and at most one message waits for the classifier at a time.    *)
(***************************************************************************)
EffectsInArrivalOrder ==
    \A c \in ConnIds :
        /\ Cardinality(conns[c].awaiting) <= 1
        /\ \A i, j \in 1..Len(conns[c].effects) :
              i < j => conns[c].effects[i].id <= conns[c].effects[j].id
        /\ \A m \in conns[c].awaiting :
              \A i \in 1..Len(conns[c].effects) : conns[c].effects[i].id <= m.id

\* A message is queued behind one that waits for the classifier, after an
\* earlier message has been handled.
QueuedBehindInFlight ==
    \E c \in ConnIds :
        /\ conns[c].guardChain # <<>>
        /\ \E m \in conns[c].awaiting :
              \E i \in 1..Len(conns[c].effects) : conns[c].effects[i].id < m.id

(***************************************************************************)
(* C5: after a sweep that runs at a time >= s.expiresAt, the registry has  *)
(* no entry for s.id and no relay connection of s.id is left open: each    *)
(* one that was open was closed by the sweep with code 4000.               *)
(***************************************************************************)
SweepRetiresExpired ==
    http.op = "sweep"
        => \A id \in SessionIds :
              sessions[id].created /\ isExpired(sessions[id], now)
                  => /\ id \notin store
                     /\ \A c \in ConnIds :
                           conns[c].live /\ conns[c].sessionId = id
                               => conns[c].client # "OPEN"

(***************************************************************************)
(* C6: a relay connection attempt whose AI token was signed with another   *)
(* secret, or whose sessionId differs from the session id of the path, is  *)
(* rejected as unauthorized (401) and nothing is accepted or registered.   *)
(***************************************************************************)
BadTokenAttempt ==
    /\ http.op = "upgrade"
    /\ http.token # NoToken
    /\ (http.token.secret # ServerSecret \/ http.token.sessionId # http.sessionId)

BadTokenUnauthorized ==
    BadTokenAttempt => http.status = 401 /\ http.conn = 0

(***************************************************************************)
(* C7: the user-content message whose increment brings a client's count to *)
(* aiUsageLimit makes the relay send exactly one limit.reached event to    *)
(* that client and close the connection.                                   *)
(***************************************************************************)
LimitReachedOnce ==
    \A id \in SessionIds, key \in ClientKeys :
        sessions[id].created /\ sessions[id].aiUsageByClient[key] = sessions[id].aiUsageLimit
            => EventsSent(id, key, "limit.reached") = 1

(***************************************************************************)
(* C8: once a client's count equals aiUsageLimit, a further user-content   *)
(* message of that client that passes the scope check is not forwarded,    *)
(* not counted, and its connection is closed; a new relay connection for   *)
(* the client is answered 429; negotiateAiAccess for the client is         *)
(* answered 429 and mints no token.                                        *)
(***************************************************************************)
Exhausted(id, key) ==
    /\ id \in store
    /\ ~isExpired(sessions[id], now)
    /\ sessions[id].type = "verdict"
    /\ key \in ClientKeys
    /\ sessions[id].aiUsageByClient[key] >= sessions[id].aiUsageLimit

UpgradeAnswers429 ==
    /\ http.op = "upgrade"
    /\ env.JWT_SECRET /\ env.OPENAI_API_KEY
    /\ http.token # NoToken
    /\ verifyAiAccessToken(http.token, http.sessionId, now) = "ok"
    /\ (http.role = "" \/ http.role = http.token.role)
    /\ Exhausted(http.sessionId, clientKeyOf(http.token.role, http.token.sub))
    => http.status = 429 /\ http.conn = 0

ConnectAnswers429 ==
    /\ http.op = "connect"
    /\ env.JWT_SECRET
    /\ http.role = "host"
    /\ http.token # NoToken
    /\ verifyHostToken(http.token, http.sessionId, now) = "true"
    /\ Exhausted(http.sessionId, "host")
    => http.status = 429 /\ http.minted = NoToken

OverLimitMessageRejected ==
    \A c \in ConnIds :
        \A i \in (Len(conns[c].effects) + 1)..Len(conns'[c].effects) :
            /\ conns'[c].effects[i].step = "inScope"
            /\ Exhausted(conns[c].sessionId, conns[c].clientKey)
            => /\ sessions' = sessions
               /\ conns'[c].toUpstream = conns[c].toUpstream
               /\ conns'[c].pendingToUpstream = conns[c].pendingToUpstream
               /\ SocketsClosed(conns'[c])

ExhaustedQuotaRejects ==
    /\ [](UpgradeAnswers429 /\ ConnectAnswers429)
    /\ [][OverLimitMessageRejected]_vars

\* A second connection of the client got the usage-limit closure for an in-scope
\* message, and a later upgrade or negotiation was answered 429.
ExhaustedQuotaRejected ==
    /\ http.op \in {"upgrade", "connect"}
    /\ http.status = 429
    /\ \E c \in ConnIds :
          /\ "error:AI usage limit reached" \in Range(conns[c].toClient)
          /\ SocketsClosed(conns[c])

(***************************************************************************)
(* C9: every user-content message that passes the scope check while the    *)
(* client's count is below aiUsageLimit is forwarded upstream (or queued)  *)
(* and counted once, so the count equals the number of that client's       *)
(* user-content messages accepted for forwarding.                          *)
(***************************************************************************)
CountEqualsAccepted ==
    \A id \in SessionIds, key \in ClientKeys :
        sessions[id].created => sessions[id].aiUsageByClient[key] = UserAccepted(id, key)

(***************************************************************************)
(* C10: checkPromptInScope returns inScope = false, and does not raise,    *)
(* when OPENAI_API_KEY is missing, when the session scope is empty or      *)
(* blank, when the classifier request fails or is aborted by the 6-second  *)
(* timeout, when the classifier answers with a non-success status, and     *)
(* when the verdict text starts with neither "yes" nor "no" after trimming *)
(* and lower-casing.                                                       *)
(***************************************************************************)
RequestFails(outcome) ==
    outcome.net # "ok" \/ outcome.latency >= ScopeGuardTimeout

VerdictUnclear(outcome) ==
    LET text == IF outcome.parses THEN coerceString(outcome.content) ELSE <<>>
        normalized == toLowerCase(trim(text))
    IN  ~startsWith(normalized, <<"y", "e", "s">>) /\ ~startsWith(normalized, <<"n", "o">>)

FailClosedCase(g) ==
    \/ ~g.apiKey
    \/ trim(g.scope) = <<>>
    \/ RequestFails(g.outcome)
    \/ ~g.outcome.ok
    \/ VerdictUnclear(g.outcome)

GuardFailsClosed ==
    guard.pc = "settled" /\ FailClosedCase(guard)
        => ~guard.result.threw /\ ~guard.result.inScope

(***************************************************************************)
(* C11: under any sequence of requestJoin, admit and deny, sequential or   *)
(* overlapping, the status of a join request changes at most once, from    *)
(* pending to admitted or from pending to denied: once it is admitted or   *)
(* denied no step changes it again.                                        *)
(***************************************************************************)
StatusOf(id, r) == sessions[id].joinRequests[r].status

DecidedStatusIsFinal ==
    [][\A id \in SessionIds, r \in ReqIds :
          /\ StatusOf(id, r) \in {"admitted", "denied"} => StatusOf(id, r)' = StatusOf(id, r)
          /\ StatusOf(id, r) = "pending"
                => StatusOf(id, r)' \in {"pending", "admitted", "denied"}]_vars

(***************************************************************************)
(* C12: a relay connection is accepted (client socket upgraded, upstream   *)
(* opened, connection registered) only if at that moment the AI token is   *)
(* present and valid for the session of the path, the session is in the    *)
(* registry and not expired, its type is verdict, the token's role is host *)
(* or participant, and the usage count of the client key is strictly       *)
(* below aiUsageLimit.                                                     *)
(***************************************************************************)
Accepted == http.op = "upgrade" /\ http.status = 101

AcceptedOnlyWhenEntitled ==
    Accepted =>
        /\ http.conn \in ConnIds
        /\ conns[http.conn].client = "OPEN"
        /\ conns[http.conn].upstream = "CONNECTING"
        /\ http.conn \in tracked[http.sessionId]
        /\ http.token # NoToken
        /\ http.token.secret = ServerSecret
        /\ (now \div TicksPerSecond) < http.token.exp
        /\ http.token.sessionId = http.sessionId
        /\ http.token.role \in {"host", "participant"}
        /\ http.sessionId \in store
        /\ now < sessions[http.sessionId].expiresAt
        /\ sessions[http.sessionId].type = "verdict"
        /\ conns[http.conn].clientKey \in ClientKeys
        /\ sessions[http.sessionId].aiUsageByClient[conns[http.conn].clientKey]
              < sessions[http.sessionId].aiUsageLimit

\* A connection is accepted in the last tick before the session expires, some
\* time after the start.
AcceptedInLastTick ==
    /\ Accepted
    /\ now + 1 = sessions[http.sessionId].expiresAt
    /\ now > 0

(***************************************************************************)
(* C13: a rejected relay connection attempt is answered with the code of   *)
(* its first failing check: 401 for a missing or invalid token, 403 for a  *)
(* session that is expired (or gone) or not of type verdict or a role that *)
(* may not use AI, 429 for an exhausted quota, 501 for missing AI          *)
(* configuration.  (A role query parameter that contradicts the token is   *)
(* not one of the listed cases and is left open.)                          *)
(***************************************************************************)
TokenInvalid(token, sessionId) ==
    \/ token = NoToken
    \/ token.secret # ServerSecret
    \/ (now \div TicksPerSecond) >= token.exp
    \/ token.sessionId # sessionId
    \/ token.role \notin {"host", "participant"}
    \/ token.sub = ""

RejectionCodeOfFirstFailingCheck ==
    http.op = "upgrade" /\ http.status # 101 =>
        IF ~env.JWT_SECRET THEN http.status = 501
        ELSE IF TokenInvalid(http.token, http.sessionId) THEN http.status = 401
        ELSE IF http.role # "" /\ http.role # http.token.role THEN TRUE
        ELSE IF \/ http.sessionId \notin store
                \/ now >= sessions[http.sessionId].expiresAt
                \/ sessions[http.sessionId].type # "verdict" THEN http.status = 403
        ELSE IF ~env.OPENAI_API_KEY THEN http.status = 501
        ELSE http.status = 429

(***************************************************************************)
(* C14: token verification is uniform.  On a live session, a host-only     *)
(* operation called with a token that has a bad signature, is expired, or  *)
(* names another session or role is answered 401 in every case, and relay  *)
(* entry with an AI token that is invalid in any of these ways is answered *)
(* 401 in every case: the outcome does not tell which check failed.        *)
(***************************************************************************)
HostTokenInvalid(token, sessionId) ==
    \/ token.secret # ServerSecret
    \/ (now \div TicksPerSecond) >= token.exp
    \/ token.sessionId # sessionId
    \/ token.role # "host"

Live(sessionId) ==
    /\ env.JWT_SECRET /\ env.DAILY
    /\ sessionId \in store
    /\ now < sessions[sessionId].expiresAt

\* join and negotiateAiAccess as host: the response being written
RouteReportsUnauthorized ==
    /\ http.op \in {"join", "connect"}
    /\ http.role = "host"
    /\ Live(http.sessionId)
    /\ (http.op = "connect" => sessions[http.sessionId].type = "verdict")
    /\ http.token # NoToken
    /\ HostTokenInvalid(http.token, http.sessionId)
    => http.status = 401

\* relay entry: the response being written
RelayReportsUnauthorized ==
    /\ http.op = "upgrade"
    /\ env.JWT_SECRET
    /\ http.token # NoToken
    /\ TokenInvalid(http.token, http.sessionId)
    => http.status = 401

\* admit, deny and end: the step in which the call runs its checks
CallReportsUnauthorized ==
    \A h \in Callers :
        /\ calls[h].op = "none"
        /\ calls'[h].op \in {"admit", "deny", "end"}
        /\ Live(calls'[h].sessionId)
        /\ calls'[h].token # NoToken
        /\ HostTokenInvalid(calls'[h].token, calls'[h].sessionId)
        => calls'[h].pc = "done" /\ calls'[h].status = 401

TokenVerificationUniform ==
    /\ [](RouteReportsUnauthorized /\ RelayReportsUnauthorized)
    /\ [][CallReportsUnauthorized]_vars

(***************************************************************************)
(* C15: negotiateAiAccess issues an AI token only when the session is in   *)
(* the registry, not expired and of type verdict, the client's remaining   *)
(* quota is above zero, and either the role is host and the bearer token   *)
(* is an unexpired server-signed host-role token of that session, or the   *)
(* role is participant and requestId names a join request of the session   *)
(* that is admitted with finalRole participant.  No AI token exists for an *)
(* observer or for a request that is pending or denied.                    *)
(***************************************************************************)
NegotiatedAsHost ==
    /\ http.role = "host"
    /\ http.token # NoToken
    /\ ~HostTokenInvalid(http.token, http.sessionId)
    /\ http.minted.role = "host"
    /\ sessions[http.sessionId].aiUsageByClient["host"] < sessions[http.sessionId].aiUsageLimit

NegotiatedAsParticipant ==
    /\ http.role = "participant"
    /\ http.requestId \in ReqIds
    /\ sessions[http.sessionId].joinRequests[http.requestId].status = "admitted"
    /\ sessions[http.sessionId].joinRequests[http.requestId].finalRole = "participant"
    /\ http.minted.role = "participant"
    /\ http.minted.sub = http.requestId
    /\ sessions[http.sessionId].aiUsageByClient[ParticipantKey(http.requestId)]
          < sessions[http.sessionId].aiUsageLimit

AiTokenOnlyWhenEntitled ==
    /\ http.op = "connect" /\ (http.status = 200 \/ http.minted # NoToken)
          => /\ http.status = 200
             /\ http.minted \in issued
             /\ http.minted.sessionId = http.sessionId
             /\ http.sessionId \in store
             /\ now < sessions[http.sessionId].expiresAt
             /\ sessions[http.sessionId].type = "verdict"
             /\ NegotiatedAsHost \/ NegotiatedAsParticipant
    /\ \A t \in AiTokens :
          /\ t.role \in {"host", "participant"}
          /\ t.role = "participant"
                => /\ t.sub \in ReqIds
                   /\ sessions[t.sessionId].joinRequests[t.sub].status = "admitted"
                   /\ sessions[t.sessionId].joinRequests[t.sub].finalRole = "participant"

\* An admitted participant is issued an AI token.
ParticipantNegotiated ==
    /\ http.op = "connect"
    /\ http.status = 200
    /\ http.role = "participant"
    /\ http.minted \in issued

(***************************************************************************)
(* C16: admitJoinRequest, denyJoinRequest, endSession and joinAsHost,      *)
(* called on a live session without a valid host token for it (no token,   *)
(* or one that is forged, expired, or of another session or role), fail as *)
(* unauthorized (401) and leave the registry, the session and all its join *)
(* requests unchanged.                                                     *)
(***************************************************************************)
NoValidHostToken(token, sessionId) == token = NoToken \/ HostTokenInvalid(token, sessionId)

CallWithoutHostToken(h) ==
    /\ calls[h].op = "none"
    /\ calls'[h].op \in {"admit", "deny", "end"}
    /\ Live(calls'[h].sessionId)
    /\ NoValidHostToken(calls'[h].token, calls'[h].sessionId)

JoinWithoutHostToken ==
    /\ http.op = "none"
    /\ http'.op = "join"
    /\ Live(http'.sessionId)
    /\ NoValidHostToken(http'.token, http'.sessionId)

HostOnlyStep ==
    /\ \A h \in Callers :
          CallWithoutHostToken(h)
              => /\ calls'[h].pc = "done" /\ calls'[h].status = 401
                 /\ store' = store /\ sessions' = sessions
    /\ JoinWithoutHostToken
          => http'.status = 401 /\ store' = store /\ sessions' = sessions

HostOnlyOperationsUnauthorized == [][HostOnlyStep]_vars

(***************************************************************************)
(* C17: every session createSession stores has type verdict with a scope   *)
(* that is a non-blank string, or type normal with neither scope nor       *)
(* context; createSession with type verdict and a missing or blank scope,  *)
(* or with type normal and a scope or a context, answers 400 and adds no   *)
(* session to the registry.                                                *)
(***************************************************************************)
WellFormed(session) ==
    \/ session.type = "verdict" /\ session.hasScope /\ trim(session.scope) # <<>>
    \/ session.type = "normal" /\ ~session.hasScope /\ ~session.hasContext

Disallowed(body) ==
    \/ body.type = "verdict" /\ (~body.scope.defined \/ trim(body.scope.text) = <<>>)
    \/ body.type = "normal" /\ (body.scope.defined \/ body.hasContext)

StoredSessionsWellFormed ==
    /\ \A id \in SessionIds : sessions[id].created => WellFormed(sessions[id])
    /\ http.op = "create" /\ http.status = 201
          => /\ http.sessionId \in store
             /\ sessions[http.sessionId].type = http.body.type
             /\ sessions[http.sessionId].hasScope = http.body.scope.defined
             /\ sessions[http.sessionId].scope = http.body.scope.text
             /\ sessions[http.sessionId].hasContext = http.body.hasContext
    /\ http.op = "create" /\ env.JWT_SECRET /\ Disallowed(http.body)
          => http.status = 400 /\ http.sessionId = "" /\ http.minted = NoToken

RejectedCreateAddsNothing ==
    http'.op = "create" /\ http'.status # 201 => store' = store /\ sessions' = sessions

CreateSessionValidates ==
    /\ []StoredSessionsWellFormed
    /\ [][RejectedCreateAddsNothing]_vars

\* A normal session with a context is refused, after a verdict session was stored.
DisallowedCreateRefused ==
    /\ http.op = "create"
    /\ http.status = 400
    /\ http.body.type = "normal"
    /\ http.body.hasContext
    /\ \E id \in store : sessions[id].type = "verdict"

(***************************************************************************)
(* C18: getSession(id) answers 404 exactly when no session with that id    *)
(* was ever created, 410 exactly when a session with that id was created   *)
(* and its expiry time has passed, and 200 otherwise.                      *)
(***************************************************************************)
EverCreated(id) == id \in SessionIds /\ sessions[id].created

ExpiryPassed(id) == EverCreated(id) /\ now >= sessions[id].expiresAt

GetSessionStep ==
    http.op = "none" /\ http'.op = "get" =>
        LET id == http'.sessionId
        IN  /\ http'.status = 404 <=> id \notin store
            /\ http'.status = 410 <=> id \in store /\ now >= sessions[id].expiresAt
            /\ http'.status = 200 <=> id \in store /\ now < sessions[id].expiresAt
            /\ store' = IF http'.status = 410 THEN store \ {id} ELSE store
            /\ sessions' = sessions

ReportedExpired(id) ==
    \/ http.op \in {"get", "connect", "join", "join-request"}
            /\ http.status = 410 /\ http.sessionId = id
    \/ http.op = "upgrade" /\ http.status = 403 /\ http.sessionId = id /\ ExpiryPassed(id)
    \/ \E h \in Callers : calls[h].pc = "done" /\ calls[h].status = 410 /\ calls[h].sessionId = id
    \/ \E c \in ConnIds :
          conns[c].sessionId = id /\ "error:Session expired" \in Range(conns[c].toClient)

ExpiredReportDeletes ==
    /\ \A id \in SessionIds : ReportedExpired(id) => id \notin store
    /\ http.op = "get" /\ http.sessionId \notin store /\ http.status # 410
          => http.status = 404

DeletedStaysDeleted ==
    \A id \in SessionIds : EverCreated(id) /\ id \notin store => id \notin store'

TokensExpireWithSession ==
    \A token \in issued :
        token.exp * TicksPerSecond <= sessions[token.sessionId].expiresAt


(***************************************************************************)
(* C21: a join request carries room credentials (roomUrl, dailyToken,      *)
(* finalRole) exactly when its status is admitted, and a status snapshot   *)
(* sent for a pending or denied request carries none of them.              *)
(***************************************************************************)
CredentialsIffAdmitted(status, role, roomUrl, dailyToken) ==
    /\ roomUrl <=> status = "admitted"
    /\ dailyToken <=> status = "admitted"
    /\ role # "" <=> status = "admitted"

StatusEvents(g) ==
    {calls[g].events[i] : i \in {j \in 1..Len(calls[g].events) :
                                    calls[g].events[j].event = "status"}}

RoomCredentialsIffAdmitted ==
    /\ \A id \in SessionIds, r \in ReqIds :
          LET jr == sessions[id].joinRequests[r]
          IN  jr.status # "none" =>
                 CredentialsIffAdmitted(jr.status, jr.finalRole, jr.roomUrl, jr.dailyToken)
    /\ \A g \in Subscribers : \A e \in StatusEvents(g) :
          CredentialsIffAdmitted(e.status, e.role, e.roomUrl, e.dailyToken)

\* A guest was sent the pending snapshot and later the admitted one.
AdmittedSnapshotSent ==
    \E g \in Subscribers : \E e1, e2 \in StatusEvents(g) :
       e1.status = "pending" /\ e2.status = "admitted" /\ e2.roomUrl


(***************************************************************************)
(* C22: the join-request status stream emits the current status when it is *)
(* opened, then exactly one status event per later status change, ends     *)
(* itself once it has emitted admitted or denied, and emits nothing after  *)
(* it has ended.                                                           *)
(***************************************************************************)
StreamOf(g) == calls[g]

Following(g) == StreamOf(g).op = "stream" /\ StreamOf(g).status = 200

StatusesSent(g) ==
    [i \in 1..Len(StreamOf(g).events) |-> StreamOf(g).events[i].status]

\* The values the request's status has had since the stream was opened.
StatusesSince(g) ==
    LET jr == sessions[StreamOf(g).sessionId].joinRequests[StreamOf(g).requestId]
    IN  SubSeq(jr.history, StreamOf(g).from, Len(jr.history))

EmittedTerminal(g) ==
    /\ StreamOf(g).events # <<>>
    /\ StreamOf(g).events[Len(StreamOf(g).events)].status \in {"admitted", "denied"}

StreamOpensWithCurrentStatus(g) ==
    (~Following(g) /\ Following(g)') =>
       StatusesSent(g)' = <<StatusOf(StreamOf(g).sessionId, StreamOf(g).requestId)>>'

StreamEndsOnTerminal(g) ==
    (Following(g) /\ EmittedTerminal(g)) => StreamOf(g).pc \in {"ended", "closed"}

StreamSilentAfterEnd(g) ==
    (Following(g) /\ StreamOf(g).pc \in {"ended", "closed"}) =>
       StreamOf(g).events' = StreamOf(g).events

\* When the stream ends itself, it has reported every value of the status once.
StreamReportedEveryChange(g) ==
    (Following(g)' /\ StreamOf(g).pc # "ended" /\ StreamOf(g).pc' = "ended"
                   /\ EmittedTerminal(g)') =>
       StatusesSent(g)' = StatusesSince(g)'

StatusStreamFollowsChanges ==
    /\ [](\A g \in Subscribers : StreamEndsOnTerminal(g))
    /\ [][\A g \in Subscribers :
             /\ StreamOpensWithCurrentStatus(g)
             /\ StreamSilentAfterEnd(g)
             /\ StreamReportedEveryChange(g)]_vars


(***************************************************************************)
(* C23: for every session s and instant t, isExpired(s, t) is true exactly *)
(* when t >= s.expiresAt; in particular it is true at t = s.expiresAt.     *)
(***************************************************************************)
Instants == 0..(MaxTime + MaxTtl)

ExpiredFromExpiryInstant ==
    \A id \in SessionIds :
       EverCreated(id) =>
          /\ isExpired(sessions[id], sessions[id].expiresAt)
          /\ \A t \in Instants : isExpired(sessions[id], t) <=> t >= sessions[id].expiresAt

\* A lookup made at the very instant of expiry was answered "Session expired".
ExpiredAtExpiryInstant ==
    /\ http.op = "get" /\ http.status = 410
    /\ now = sessions[http.sessionId].expiresAt


(***************************************************************************)
(* C24: a session.update message sent by the client is never passed on to  *)
(* the upstream, neither sent nor queued; the client is sent an error      *)
(* event for it, and the connection stays open with the usage counters and *)
(* the blocked flag as they were.                                          *)
(***************************************************************************)
\* What the handler makes of a session.update arriving on connection c now.
SessionUpdateHandled(c) ==
    startHandler(World(conns[c], sessions, store),
                 [id |-> conns[c].received + 1, kind |-> "session.update"], now)

ErrorOnly(c) ==
    logEffect(World([conns[c] EXCEPT !.toClient = Append(@, "error:session.update")],
                    sessions, store),
              [id |-> conns[c].received + 1, kind |-> "session.update"], "start")

SessionUpdateRefused ==
    \A c \in ConnIds :
       conns[c].live =>
          /\ \A d \in Range(conns[c].toUpstream) \cup Range(conns[c].pendingToUpstream) :
                d.kind # "session.update"
          /\ conns[c].client = "OPEN" => SessionUpdateHandled(c) = ErrorOnly(c)

\* A session.update was refused right after a prompt was blocked, on a
\* connection that is still open.
SessionUpdateRefusedAfterBlock ==
    \E c \in ConnIds :
       /\ conns[c].live /\ conns[c].client = "OPEN" /\ conns[c].upstream = "OPEN"
       /\ conns[c].lastUserPromptBlocked
       /\ Len(conns[c].toClient) > 1
       /\ conns[c].toClient[Len(conns[c].toClient)] = "error:session.update"
       /\ conns[c].toClient[Len(conns[c].toClient) - 1] = "scope.violation"


(***************************************************************************)
(* C25: once a relay connection is being terminated (the client socket or  *)
(* the upstream socket closed or failed, or the cleanup interval closed    *)
(* it), eventually both sockets are closed and the connection is not in    *)
(* the per-session tracking map; a close repeated on a connection that is  *)
(* already closing changes nothing but the completion of the close.        *)
(***************************************************************************)
Terminating(c) ==
    /\ conns[c].live
    /\ conns[c].client \in {"CLOSING", "CLOSED"} \/ conns[c].upstream \in {"CLOSING", "CLOSED"}

Untracked(c) == \A id \in SessionIds : c \notin tracked[id]

FullyClosed(c) ==
    conns[c].client = "CLOSED" /\ conns[c].upstream = "CLOSED" /\ Untracked(c)

Completion(before, after) ==
    after = before \/ (before = "CLOSING" /\ after = "CLOSED")

RepeatedCloseHarmless(c) ==
    (conns[c].live /\ SocketsClosed(conns[c]) /\ Untracked(c)) =>
       /\ Completion(conns[c].client, conns'[c].client)
       /\ Completion(conns[c].upstream, conns'[c].upstream)
       /\ conns'[c].closeCode = conns[c].closeCode
       /\ Untracked(c)'
       /\ safeClose(conns[c]) = conns[c]
       /\ forceClose(conns[c]) = conns[c]

TerminatedConnectionCloses ==
    /\ \A c \in ConnIds : Terminating(c) ~> FullyClosed(c)
    /\ [][\A c \in ConnIds : RepeatedCloseHarmless(c)]_vars

\* The cleanup interval closed a connection, both close events arrived, and
\* the second one found the connection already untracked.
ForcedCloseCompleted ==
    \E c \in ConnIds : conns[c].live /\ FullyClosed(c) /\ conns[c].closeCode = 4000


(***************************************************************************)
(* C26: when a connection was closed while the classifier call for one of  *)
(* its user-content messages was in flight, the result is discarded: no    *)
(* usage counter is incremented, nothing is passed on to the upstream and  *)
(* no event is sent to the client.                                         *)
(***************************************************************************)
ClosedWhileClassifying(c) ==
    conns[c].live /\ conns[c].awaiting # {} /\ SocketsClosed(conns[c])

ClassifierSettles(c) == conns'[c].awaiting # conns[c].awaiting

LateResultDiscarded ==
    [][\A c \in ConnIds :
          (ClosedWhileClassifying(c) /\ ClassifierSettles(c)) =>
             /\ sessions' = sessions
             /\ conns'[c].toUpstream = conns[c].toUpstream
             /\ conns'[c].pendingToUpstream = conns[c].pendingToUpstream
             /\ conns'[c].toClient = conns[c].toClient]_vars


(***************************************************************************)
(* C27: every usage counter increment the relay makes is applied to the    *)
(* Session the registry holds under that id at the moment of the           *)
(* increment, never to a session that has been deleted from the registry   *)
(* (by the cleanup interval, by endSession or on a lazy expiry check).     *)
(***************************************************************************)
UsageIncremented(id) ==
    \E key \in DOMAIN sessions[id].aiUsageByClient :
       sessions'[id].aiUsageByClient[key] > sessions[id].aiUsageByClient[key]

IncrementsOnlyOnRegisteredSessions ==
    [][\A id \in SessionIds : UsageIncremented(id) => id \in store]_vars


(***************************************************************************)
(* C28: after a user-content message was blocked by the scope check, a     *)
(* response.create that is the next client message on the connection is    *)
(* dropped silently: it is not passed on to the upstream and no event at   *)
(* all is sent to the client for it.                                       *)
(***************************************************************************)
LastEffect(c) == conns[c].effects[Len(conns[c].effects)]

\* The last thing the connection's handlers did was to block a prompt.
JustBlocked(c) ==
    /\ conns[c].live /\ conns[c].effects # <<>>
    /\ LastEffect(c).step = "blocked"
    /\ conns[c].guardChain = <<>>

ResponseCreateHandled(c) ==
    startHandler(World(conns[c], sessions, store),
                 [id |-> conns[c].received + 1, kind |-> "response.create"], now)

DroppedSilently(c) ==
    logEffect(World(conns[c], sessions, store),
              [id |-> conns[c].received + 1, kind |-> "response.create"], "start")

ResponseCreateAfterBlockDropped ==
    \A c \in ConnIds : JustBlocked(c) => ResponseCreateHandled(c) = DroppedSilently(c)

\* A message that followed a blocked prompt on an open connection left no
\* trace but the start of its handler: a response.create that was dropped.
ResponseCreateWasDropped ==
    \E c \in ConnIds :
       /\ conns[c].live /\ conns[c].client = "OPEN" /\ conns[c].upstream = "OPEN"
       /\ Len(conns[c].effects) > 1
       /\ LastEffect(c).step = "start"
       /\ conns[c].effects[Len(conns[c].effects) - 1].step = "blocked"
       /\ conns[c].awaiting = {}
       /\ LastEffect(c).id \notin PassedOn(conns[c])
       /\ conns[c].toClient[Len(conns[c].toClient)] = "scope.violation"


(***************************************************************************)
(* C29: after a user-content message was blocked, a next client message    *)
(* that is not response.create clears the connection's blocked flag, so a  *)
(* response.create arriving after that message is passed on to the         *)
(* upstream and not dropped.                                               *)
(***************************************************************************)
Intervening == {"session.update", "other"}

AfterIntervening(c, kind) ==
    startHandler(World(conns[c], sessions, store),
                 [id |-> conns[c].received + 1, kind |-> kind], now)

ThenResponseCreate(c, kind) ==
    startHandler(AfterIntervening(c, kind),
                 [id |-> conns[c].received + 2, kind |-> "response.create"], now)

InterveningMessageClearsBlock ==
    \A c \in ConnIds :
       (JustBlocked(c) /\ conns[c].client = "OPEN" /\ conns[c].upstream = "OPEN") =>
          \A kind \in Intervening :
             /\ ~AfterIntervening(c, kind).conn.lastUserPromptBlocked
             /\ conns[c].received + 2 \in PassedOn(ThenResponseCreate(c, kind).conn)


(***************************************************************************)
(* C30: on every relay connection the first message the upstream receives  *)
(* is the session.update directive the relay writes itself; no message of  *)
(* the client, buffered or not, is sent upstream before it.                *)
(***************************************************************************)
DirectiveFirst ==
    \A c \in ConnIds :
       /\ conns[c].toUpstream # <<>> => conns[c].toUpstream[1] = Directive
       /\ \A i \in 2..Len(conns[c].toUpstream) : conns[c].toUpstream[i].kind # "directive"
       /\ conns[c].upstream = "CONNECTING" => conns[c].toUpstream = <<>>

Position(seq, x) == CHOOSE i \in 1..Len(seq) : seq[i] = x

\* A prompt accepted while the upstream was still connecting was flushed
\* after the directive.
BufferedPromptFollowsDirective ==
    \E c \in ConnIds :
       /\ Len(conns[c].toUpstream) = 2
       /\ conns[c].toUpstream[1] = Directive
       /\ conns[c].toUpstream[2].kind = "user"
       /\ {"quota.update", "upstream.ready"} \subseteq Range(conns[c].toClient)
       /\ Position(conns[c].toClient, "quota.update")
             < Position(conns[c].toClient, "upstream.ready")


(***************************************************************************)
(* C31: client messages accepted before the upstream handshake completes   *)
(* are queued and, once the upstream opens, delivered in arrival order,    *)
(* each exactly once and before any client message accepted later; the     *)
(* client messages the upstream receives are a subsequence of the arrival  *)
(* order.                                                                  *)
(***************************************************************************)
\* The client messages handed to the upstream, then those still queued.
ClientMessagesOut(conn) ==
    SelectSeq(conn.toUpstream, LAMBDA d : d.kind # "directive") \o conn.pendingToUpstream

InArrivalOrder(seq) == \A i, j \in 1..Len(seq) : i < j => seq[i].id < seq[j].id

BufferedDeliveredInArrivalOrder ==
    \A c \in ConnIds :
       /\ InArrivalOrder(ClientMessagesOut(conns[c]))
       /\ \A d \in Range(ClientMessagesOut(conns[c])) : d.id \in 1..conns[c].received
       /\ conns[c].upstream = "OPEN" => conns[c].pendingToUpstream = <<>>
       /\ conns[c].pendingToUpstream # <<>> => conns[c].toUpstream = <<>>

\* A prompt queued while the upstream was connecting reached it right after
\* the directive, and two later messages followed it in arrival order.
QueueFlushedThenDirect ==
    \E c \in ConnIds :
       /\ Len(conns[c].toUpstream) = 4
       /\ conns[c].toUpstream[1] = Directive
       /\ conns[c].toUpstream[2].kind = "user"
       /\ conns[c].toUpstream[3].kind = "other"
       /\ {"quota.update", "upstream.ready"} \subseteq Range(conns[c].toClient)
       /\ Position(conns[c].toClient, "quota.update")
             < Position(conns[c].toClient, "upstream.ready")


(***************************************************************************)
(* C32: usage counters change only by a relay user-content message that    *)
(* passed the scope check, and then only the counter of the sender's       *)
(* client key changes, by exactly one; every other client message, every   *)
(* upstream message, negotiateAiAccess and relay admission leave all       *)
(* counters as they are, and no counter ever decreases.                    *)
(***************************************************************************)
\* In this step the handler of a user-content message of connection c got an
\* in-scope verdict.
PassedScopeCheck(c) ==
    /\ conns[c].live
    /\ Len(conns'[c].effects) > Len(conns[c].effects)
    /\ conns'[c].effects[Len(conns[c].effects) + 1].step = "inScope"

UsageOf(id) == sessions[id].aiUsageByClient

UsageStep(id) ==
    /\ \A key \in DOMAIN UsageOf(id) : UsageOf(id)'[key] >= UsageOf(id)[key]
    /\ UsageOf(id)' # UsageOf(id) =>
          \E c \in ConnIds :
             /\ PassedScopeCheck(c)
             /\ conns[c].sessionId = id
             /\ UsageOf(id)' = [UsageOf(id) EXCEPT ![conns[c].clientKey] = @ + 1]

ArrivedWhileOpen(conn) == SelectSeq(conn.fromUpstream, LAMBDA f : f.clientOpen)

UpstreamPassedThrough ==
    \A c \in ConnIds :
       LET arrived == ArrivedWhileOpen(conns[c])
       IN  /\ Len(conns[c].relayed) = Len(arrived)
           /\ \A i \in 1..Len(arrived) :
                 /\ conns[c].relayed[i].id = arrived[i].id
                 /\ conns[c].relayed[i].binary = arrived[i].isBinary

\* A text frame that ws handed over as a Buffer was relayed as text on a
\* connection whose last prompt was blocked and that has used quota.
TextFrameRelayedWhileBlocked ==
    \E c \in ConnIds :
       /\ conns[c].live /\ conns[c].lastUserPromptBlocked
       /\ UsageOf(conns[c].sessionId)[conns[c].clientKey] >= 1
       /\ \E i \in 1..Len(conns[c].relayed) :
             /\ ~conns[c].relayed[i].binary
             /\ \E f \in Range(conns[c].fromUpstream) :
                   f.id = conns[c].relayed[i].id /\ f.data = "Buffer"


(***************************************************************************)
(* C34: a failure of the room-deletion request is discarded.  In a tick of *)
(* the cleanup interval it prevents neither the deletion of that session,  *)
(* nor the forced close of its connections, nor the processing of the      *)
(* other expired sessions of the tick; in endSession the session is still  *)
(* deleted and the call still succeeds.                                    *)
(***************************************************************************)
SweepTick == http.op = "none" /\ http'.op = "sweep"

TickRetiresAllExpired ==
    SweepTick =>
       /\ store' = store \ expiredInStore(now)
       /\ \A id \in expiredInStore(now) :
             /\ tracked'[id] = {}
             /\ \A c \in tracked[id] : SocketsClosed(conns'[c])

RoomDeletionSettles == calls'[Reaper].rooms # calls[Reaper].rooms /\ ~SweepTick

SettlingChangesNothing ==
    RoomDeletionSettles =>
       /\ calls[Reaper].rooms \cap store = {}
       /\ UNCHANGED <<store, sessions, conns, tracked>>

EndSucceedsAnyway(h) ==
    (calls[h].op = "end" /\ calls[h].pc = "deleteDailyRoom" /\ calls'[h].pc = "done") =>
       /\ calls'[h].status = 200
       /\ calls[h].sessionId \notin store'

RoomDeletionFailureDiscarded ==
    [][/\ TickRetiresAllExpired
       /\ SettlingChangesNothing
       /\ \A h \in Callers : EndSucceedsAnyway(h)]_vars

\* One tick retired two expired sessions and closed a connection; the room
\* deletion of one of them failed while the other is still in flight.
RoomDeletionFailedAfterTick ==
    /\ calls[Reaper].failed /\ calls[Reaper].rooms # {}
    /\ \A id \in StoreIds : sessions[id].created /\ id \notin store
    /\ sessions["s1"].expiresAt = sessions["s2"].expiresAt
    /\ \E c \in ConnIds : conns[c].live /\ conns[c].closeCode = 4000


(***************************************************************************)
(* C35: when room provisioning or room-token minting fails during          *)
(* admitJoinRequest, the failure is reported to the caller and the join    *)
(* request is left exactly as it was: pending, without decidedAt and       *)
(* without room credentials.                                               *)
(***************************************************************************)
RequestOf(h) == sessions[calls[h].sessionId].joinRequests[calls[h].requestId]

AdmitFails(h) ==
    /\ calls[h].op = "admit"
    /\ calls[h].pc \in {"ensureDailyRoom", "createDailyMeetingToken"}
    /\ calls'[h].pc = "done" /\ calls'[h].failed

AdmitFailed(h) == calls[h].op = "admit" /\ calls[h].pc = "done" /\ calls[h].failed

\* Another caller's admit or deny of the same request went through.
DecidedByAnother(h) ==
    \E k \in Callers \ {h} :
       /\ calls[k].op \in {"admit", "deny"} /\ calls[k].pc = "done" /\ calls[k].status = 200
       /\ calls[k].sessionId = calls[h].sessionId /\ calls[k].requestId = calls[h].requestId

Untouched(jr) ==
    /\ jr.status = "pending" /\ jr.decidedAt = -1
    /\ jr.finalRole = "" /\ ~jr.roomUrl /\ ~jr.dailyToken

FailedAdmitLeavesRequest ==
    /\ [](\A h \in Callers :
             AdmitFailed(h) =>
                /\ calls[h].status = 500
                /\ ~DecidedByAnother(h) => Untouched(RequestOf(h)))
    /\ [][\A h \in Callers : AdmitFails(h) => sessions' = sessions]_vars

\* An admit failed while another admit of the same request is still waiting
\* for the room token; the request is untouched.
MintFailed ==
    \E h \in Callers :
       /\ AdmitFailed(h) /\ Untouched(RequestOf(h))
       /\ \E k \in Callers \ {h} : calls[k].op = "admit" /\ calls[k].pc = "createDailyMeetingToken"


(***************************************************************************)
(* C36: a user-content message whose processing starts when its session is *)
(* absent from the registry or expired is neither passed on to the         *)
(* upstream nor counted: the client gets an error event and the connection *)
(* is closed; a session that was present but expired is deleted from the   *)
(* registry.                                                               *)
(***************************************************************************)
SessionGone(c) ==
    \/ conns[c].sessionId \notin store
    \/ now >= sessions[conns[c].sessionId].expiresAt

PromptHandled(c) ==
    startHandler(World(conns[c], sessions, store),
                 [id |-> conns[c].received + 1, kind |-> "user"], now)

PromptOnGoneSessionRefused ==
    \A c \in ConnIds :
       (conns[c].live /\ conns[c].client = "OPEN" /\ SessionGone(c)) =>
          LET after == PromptHandled(c)
          IN  /\ after.sessions = sessions
              /\ after.store = store \ {conns[c].sessionId}
              /\ after.conn.toUpstream = conns[c].toUpstream
              /\ after.conn.pendingToUpstream = conns[c].pendingToUpstream
              /\ after.conn.awaiting = conns[c].awaiting
              /\ Len(after.conn.toClient) = Len(conns[c].toClient) + 1
              /\ after.conn.toClient[Len(after.conn.toClient)]
                    \in {"error:Session not found", "error:Session expired"}
              /\ SocketsClosed(after.conn)

\* The first prompt of a connection arrived when the session had expired: the
\* session is deleted, the client was told and the connection is closing.
PromptRefusedOnExpiry ==
    \E c \in ConnIds :
       /\ conns[c].live /\ conns[c].received = 1
       /\ conns[c].toClient # <<>>
       /\ conns[c].toClient[Len(conns[c].toClient)] = "error:Session expired"
       /\ conns[c].closeCode = 1005
       /\ conns[c].sessionId \notin store
       /\ PassedOn(conns[c]) = {}
       /\ \A key \in ClientKeys : UsageOf(conns[c].sessionId)[key] = 0


(***************************************************************************)
(* C37: whatever the relay sends or queues for the upstream, other than    *)
(* its own directive, is a client message that went through the pipeline   *)
(* checks: every user-content item that reaches the upstream, directly or  *)
(* through the queue, passed the scope check and was counted; a message    *)
(* that is not JSON is forwarded verbatim without scope check, counter     *)
(* change or change of the blocked flag.                                   *)
(***************************************************************************)
FoundInScope(c, id) == [id |-> id, step |-> "inScope"] \in Range(conns[c].effects)

UnparsableHandled(c) ==
    startHandler(World(conns[c], sessions, store),
                 [id |-> conns[c].received + 1, kind |-> "unparsable"], now)

ForwardedVerbatim(c) ==
    logEffect(World(forward(conns[c], [id |-> conns[c].received + 1, kind |-> "unparsable"],
                            TRUE),
                    sessions, store),
              [id |-> conns[c].received + 1, kind |-> "unparsable"], "start")

UpstreamGetsOnlyCheckedPrompts ==
    \A c \in ConnIds :
       conns[c].live =>
          /\ \A d \in Range(ClientMessagesOut(conns[c])) :
                d.kind = "user" =>
                   /\ FoundInScope(c, d.id)
                   /\ UsageOf(conns[c].sessionId)[conns[c].clientKey] >= 1
          /\ conns[c].client = "OPEN" => UnparsableHandled(c) = ForwardedVerbatim(c)


(***************************************************************************)
(* C38: the checks and the quota count of a client message are applied     *)
(* when the message is processed, before it is queued: a user-content      *)
(* message that arrives before the upstream handshake is scope-checked and *)
(* counted at arrival, and the flush at upstream-open sends the queue      *)
(* without checking again and without changing any counter.                *)
(***************************************************************************)
QueuedPrompts(conn) == SelectSeq(conn.pendingToUpstream, LAMBDA d : d.kind = "user")

QueuedPromptsWereChecked(c) ==
    /\ \A d \in Range(QueuedPrompts(conns[c])) : FoundInScope(c, d.id)
    /\ Len(QueuedPrompts(conns[c])) <= UsageOf(conns[c].sessionId)[conns[c].clientKey]

UpstreamOpens(c) == conns[c].upstream = "CONNECTING" /\ conns'[c].upstream = "OPEN"

FlushOnlySends(c) ==
    UpstreamOpens(c) =>
       /\ sessions' = sessions
       /\ conns'[c].effects = conns[c].effects
       /\ conns'[c].awaiting = conns[c].awaiting
       /\ conns'[c].lastUserPromptBlocked = conns[c].lastUserPromptBlocked
       /\ conns'[c].toUpstream = <<Directive>> \o conns[c].pendingToUpstream

CheckedAndCountedBeforeQueued ==
    /\ [](\A c \in ConnIds : conns[c].live => QueuedPromptsWereChecked(c))
    /\ [][\A c \in ConnIds : FlushOnlySends(c)]_vars


(***************************************************************************)
(* C39: the cleanup interval never deletes a session whose expiry time has *)
(* not been reached and never closes a relay connection of such a session: *)
(* after a tick at time t, every session with t < expiresAt that was in    *)
(* the registry before the tick is still there with its state unchanged,   *)
(* and its tracked connections are still open and tracked.                 *)
(***************************************************************************)
Unexpired(id) == id \in store /\ now < sessions[id].expiresAt

TickSparesUnexpired ==
    [][SweepTick =>
          \A id \in StoreIds :
             Unexpired(id) =>
                /\ id \in store'
                /\ sessions'[id] = sessions[id]
                /\ tracked'[id] = tracked[id]
                /\ \A c \in tracked[id] : conns'[c] = conns[c]]_vars

\* A tick retired one session and left the other, which has an open tracked
\* connection, alone.
TickRetiredOnlyTheExpired ==
    /\ http.op = "sweep"
    /\ \E id, other \in StoreIds :
          /\ sessions[id].created /\ id \notin store /\ id \in calls[Reaper].rooms
          /\ Unexpired(other)
          /\ \E c \in tracked[other] : conns[c].client = "OPEN" /\ conns[c].upstream = "OPEN"

=============================================================================
